---- MODULE Spec2Model ----
(***************************************************************************)
(* BattleBoats: the NMEA0183-style message codec (Message.c), the          *)
(* commit-reveal negotiation (Negotiation.h interface), the board model    *)
(* (Field.c) and the agent state machine (Agent.c).                        *)
(*                                                                         *)
(* C strings are sequences of character codes 0..255 without the           *)
(* terminating NUL.  Numbers keep their C width: uint8_t is % 256 and      *)
(* uint16_t is % 65536.  An int or unsigned int is held as the integer it  *)
(* denotes (a negative int n converts to the unsigned 2^32 + n, whose      *)
(* low 8 and 16 bits are n % 256 and n % 65536).                           *)
(***************************************************************************)
EXTENDS Integers, Sequences, FiniteSets, TLC

(***************************************************************************)
(* Characters.  Chr gives the code of a character written as a one-        *)
(* character string; CR, LF and TAB are written by name.                   *)
(***************************************************************************)
AsciiTable == {
    << " ", 32 >>, << "$", 36 >>, << "%", 37 >>, << "*", 42 >>, << "+", 43 >>, << ",", 44 >>,
    << "-", 45 >>, << "0", 48 >>, << "1", 49 >>, << "2", 50 >>, << "3", 51 >>, << "4", 52 >>,
    << "5", 53 >>, << "6", 54 >>, << "7", 55 >>, << "8", 56 >>, << "9", 57 >>, << "A", 65 >>,
    << "B", 66 >>, << "C", 67 >>, << "D", 68 >>, << "E", 69 >>, << "F", 70 >>, << "G", 71 >>,
    << "H", 72 >>, << "I", 73 >>, << "J", 74 >>, << "K", 75 >>, << "L", 76 >>, << "M", 77 >>,
    << "N", 78 >>, << "O", 79 >>, << "P", 80 >>, << "Q", 81 >>, << "R", 82 >>, << "S", 83 >>,
    << "T", 84 >>, << "U", 85 >>, << "V", 86 >>, << "W", 87 >>, << "X", 88 >>, << "Y", 89 >>,
    << "Z", 90 >>, << "a", 97 >>, << "b", 98 >>, << "c", 99 >>, << "d", 100 >>, << "e", 101 >>,
    << "f", 102 >>, << "g", 103 >>, << "h", 104 >>, << "i", 105 >>, << "j", 106 >>, << "k", 107 >>,
    << "l", 108 >>, << "m", 109 >>, << "n", 110 >>, << "o", 111 >>, << "p", 112 >>, << "q", 113 >>,
    << "r", 114 >>, << "s", 115 >>, << "t", 116 >>, << "u", 117 >>, << "v", 118 >>, << "w", 119 >>,
    << "x", 120 >>, << "y", 121 >>, << "z", 122 >>, << "CR", 13 >>, << "LF", 10 >>, << "TAB", 9 >> }

Chr(c) == (CHOOSE e \in AsciiTable : e[1] = c)[2]

\* The string (sequence of codes) of a sequence of characters.
Str(cs) == [i \in 1..Len(cs) |-> Chr(cs[i])]

\* <ctype.h> in the "C" locale.
isdigit(c) == c \in 48..57

isxdigit(c) == c \in (48..57) \cup (65..70) \cup (97..102)

isspace(c) == c \in (9..13) \cup {32}

\* The value of a hexadecimal digit, either case.
HexVal(c) == IF c \in 48..57 THEN c - 48 ELSE IF c \in 65..70 THEN c - 55 ELSE c - 87

\* "%X" of one nibble: upper-case digits.
HexDigitUpper(n) == IF n < 10 THEN 48 + n ELSE 55 + n

\* Bitwise exclusive-or of two naturals (C's ^ on unsigned operands).
RECURSIVE BitXor(_, _)
BitXor(a, b) ==
    IF a = 0 THEN b
    ELSE IF b = 0 THEN a
    ELSE (((a % 2) + (b % 2)) % 2) + 2 * BitXor(a \div 2, b \div 2)

\* The C string held by a char buffer: the bytes before the first NUL.
RECURSIVE CStr(_)
CStr(buf) ==
    IF buf = << >> \/ Head(buf) = 0 THEN << >>
    ELSE << Head(buf) >> \o CStr(Tail(buf))

U8(n) == n % 256

U16(n) == n % 65536

(***************************************************************************)
(* Message.c: constants                                                    *)
(***************************************************************************)
MESSAGE_MAX_LEN == 82

MESSAGE_MAX_PAYLOAD_LEN == MESSAGE_MAX_LEN - 1 - 1 - 2 - 1 - 1

MESSAGE_CHECKSUM_LEN == 2

\* DecodeState
WAIT_FOR_START_DELIMITER == "WAIT_FOR_START_DELIMITER"

RECORDING_PAYLOAD == "RECORDING_PAYLOAD"

RECORDING_CHECKSUM == "RECORDING_CHECKSUM"

\* The message types that have a wire form, and the event each decodes to.
WireTypes == {"MESSAGE_CHA", "MESSAGE_ACC", "MESSAGE_REV", "MESSAGE_SHO", "MESSAGE_RES"}

EventOf(t) ==
    CASE t = "MESSAGE_CHA" -> "BB_EVENT_CHA_RECEIVED"
      [] t = "MESSAGE_ACC" -> "BB_EVENT_ACC_RECEIVED"
      [] t = "MESSAGE_REV" -> "BB_EVENT_REV_RECEIVED"
      [] t = "MESSAGE_SHO" -> "BB_EVENT_SHO_RECEIVED"
      [] t = "MESSAGE_RES" -> "BB_EVENT_RES_RECEIVED"
      [] OTHER -> "BB_EVENT_NO_EVENT"

MessageEvents == {EventOf(t) : t \in WireTypes}

(***************************************************************************)
(* Message_CalculateChecksum: exclusive-or of every byte of the string.    *)
(***************************************************************************)
RECURSIVE XorBytes(_, _)
XorBytes(s, acc) ==
    IF s = << >> THEN acc ELSE XorBytes(Tail(s), BitXor(acc, Head(s)))

Message_CalculateChecksum(payload) == XorBytes(payload, 0) % 256

(***************************************************************************)
(* printf conversions used by Message_Encode.                              *)
(***************************************************************************)
\* "%u"
RECURSIVE UDec(_)
UDec(n) == IF n < 10 THEN << 48 + n >> ELSE UDec(n \div 10) \o << 48 + (n % 10) >>

\* "%d" of (int)n for an unsigned int n below 2^31 (a 16-bit parameter always is)
IDec(n) == IF n >= 0 THEN UDec(n) ELSE << 45 >> \o UDec(0 - n)

\* "%02x": Hex2Upper with the letters in lower case.
Hex2Upper_LowerCase(b) ==
    << HexDigitUpper(b \div 16) + (IF b \div 16 >= 10 THEN 32 ELSE 0),
       HexDigitUpper(b % 16) + (IF b % 16 >= 10 THEN 32 ELSE 0) >>

\* "%02X" of a uint8_t
Hex2Upper(b) == << HexDigitUpper(b \div 16), HexDigitUpper(b % 16) >>

\* snprintf(buf, size, ...): at most size - 1 characters are stored.
Truncate(s, size) == IF Len(s) <= size - 1 THEN s ELSE SubSeq(s, 1, size - 1)

(***************************************************************************)
(* scanf conversions used by Message_ParseMessage.  A result is            *)
(* [n |-> sscanf's return value (-1 is EOF), ...].                         *)
(***************************************************************************)
RECURSIVE SkipSpace(_, _)
SkipSpace(s, i) == IF i <= Len(s) /\ isspace(s[i]) THEN SkipSpace(s, i + 1) ELSE i

RECURSIVE DigitsEnd(_, _)
DigitsEnd(s, i) == IF i <= Len(s) /\ isdigit(s[i]) THEN DigitsEnd(s, i + 1) ELSE i

RECURSIVE DecVal(_, _, _, _)
DecVal(s, i, e, acc) == IF i >= e THEN acc ELSE DecVal(s, i + 1, e, 10 * acc + (s[i] - 48))

\* sscanf(s, "%2X", &v).  White space is skipped and does not count against
\* the width; a sign counts.  "0x" with nothing after it inside the width is a
\* matching failure by ISO C, while glibc and newlib convert the "0" and push the x
\* back: the build decides (lib).  j is the position after the white space.
Scan2X(s, j, lib) ==
    IF j > Len(s) THEN [n |-> -1, v |-> 0]
    ELSE IF s[j] \in {43, 45}
        THEN IF j + 1 <= Len(s) /\ isxdigit(s[j + 1])
             THEN [n |-> 1, v |-> IF s[j] = 45 THEN 0 - HexVal(s[j + 1]) ELSE HexVal(s[j + 1])]
             ELSE [n |-> 0, v |-> 0]
    ELSE IF ~isxdigit(s[j]) THEN [n |-> 0, v |-> 0]
    ELSE IF s[j] = 48 /\ j + 1 <= Len(s) /\ s[j + 1] \in {88, 120}
        THEN IF lib = "strict" THEN [n |-> 0, v |-> 0] ELSE [n |-> 1, v |-> 0]
    ELSE IF j + 1 <= Len(s) /\ isxdigit(s[j + 1])
        THEN [n |-> 1, v |-> 16 * HexVal(s[j]) + HexVal(s[j + 1])]
    ELSE [n |-> 1, v |-> HexVal(s[j])]

Sscanf_2X(s, lib) == Scan2X(s, SkipSpace(s, 1), lib)

\* sscanf(s, "%3s", buf): skip white space, then up to three non-space characters.
RECURSIVE WordEnd(_, _, _)
WordEnd(s, i, w) == IF w > 0 /\ i <= Len(s) /\ ~isspace(s[i]) THEN WordEnd(s, i + 1, w - 1) ELSE i

Scan3s(s, j) ==
    IF j > Len(s) THEN [n |-> -1, str |-> << >>]
    ELSE [n |-> 1, str |-> SubSeq(s, j, WordEnd(s, j, 3) - 1)]

Sscanf_3s(s) == Scan3s(s, SkipSpace(s, 1))

\* One "%u" or "%d" at position i: skip white space, optional sign, decimal
\* digits.  val is the converted value as a signed integer; k is the position
\* of the first digit and e the position after the last.
ScanValue(s, k, e, neg) ==
    IF e = k THEN [ok |-> FALSE, eof |-> k > Len(s), val |-> 0, next |-> k]
    ELSE [ok |-> TRUE, eof |-> FALSE,
          val |-> IF neg THEN 0 - DecVal(s, k, e, 0) ELSE DecVal(s, k, e, 0),
          next |-> e]

ScanSigned(s, j) ==
    IF j > Len(s) THEN [ok |-> FALSE, eof |-> TRUE, val |-> 0, next |-> j]
    ELSE IF s[j] \in {43, 45} THEN ScanValue(s, j + 1, DigitsEnd(s, j + 1), s[j] = 45)
    ELSE ScanValue(s, j, DigitsEnd(s, j), FALSE)

ScanInteger(s, i) == ScanSigned(s, SkipSpace(s, i))

\* The conversions of "%u,%u,...": k conversions separated by literal commas;
\* acc holds the values converted so far and r is the next conversion.
RECURSIVE ScanFields(_, _, _, _)
ScanNext(s, k, acc, r) ==
    IF ~r.ok THEN [n |-> IF acc = << >> /\ r.eof THEN -1 ELSE Len(acc), vals |-> acc]
    ELSE IF k > 1 /\ r.next <= Len(s) /\ s[r.next] = 44
        THEN ScanFields(s, r.next + 1, k - 1, Append(acc, r.val))
    ELSE [n |-> Len(acc) + 1, vals |-> Append(acc, r.val)]

ScanFields(s, i, k, acc) == ScanNext(s, k, acc, ScanInteger(s, i))

\* The number of leading characters of s equal to those of lit.
RECURSIVE MatchLen(_, _, _)
MatchLen(s, lit, i) ==
    IF i <= Len(s) /\ i <= Len(lit) /\ s[i] = lit[i] THEN MatchLen(s, lit, i + 1) ELSE i - 1

\* sscanf(s, "TAG,%u[,%u[,%u]]", ...) with lit = "TAG," and k conversions;
\* m is the number of characters of the literal that matched.
ScanAfterLiteral(s, lit, k, m) ==
    IF m = Len(lit) THEN ScanFields(s, m + 1, k, << >>)
    ELSE [n |-> IF m = Len(s) THEN -1 ELSE 0, vals |-> << >>]

Sscanf_Fields(s, lit, k) == ScanAfterLiteral(s, lit, k, MatchLen(s, lit, 1))

(***************************************************************************)
(* Message_ParseMessage(payload, checksum_string, message_event).          *)
(* An event is [type, param0, param1, param2]; the parser writes the type  *)
(* and only the parameters of the matched template, the others keep the    *)
(* values the caller's struct held.  Result: [ret, ev].                    *)
(***************************************************************************)
ParseError(ev) == [ret |-> "STANDARD_ERROR", ev |-> [ev EXCEPT !.type = "BB_EVENT_ERROR"]]

\* The tags of the payload templates.
PayloadTag ==
    [CHA |-> Str(<< "C", "H", "A" >>),
     ACC |-> Str(<< "A", "C", "C" >>),
     REV |-> Str(<< "R", "E", "V" >>),
     SHO |-> Str(<< "S", "H", "O" >>),
     RES |-> Str(<< "R", "E", "S" >>)]

\* The branch of one tag: r is sscanf(payload, "TAG,%u...", ...), which must
\* have converted k fields.
FieldsResult(r, k, evtype, ev) ==
    IF r.n # k THEN ParseError(ev)
    ELSE [ret |-> "SUCCESS",
          ev  |-> [type   |-> evtype,
                   param0 |-> U16(r.vals[1]),
                   param1 |-> IF k >= 2 THEN U16(r.vals[2]) ELSE ev.param1,
                   param2 |-> IF k >= 3 THEN U16(r.vals[3]) ELSE ev.param2]]

ParseFields(payload, tag, k, evtype, ev) ==
    FieldsResult(Sscanf_Fields(payload, Append(tag, 44), k), k, evtype, ev)

\* message_type is sscanf(payload, "%3s", ...).
ParseTagged(payload, message_type, ev) ==
    IF message_type.n # 1 THEN ParseError(ev)
    ELSE IF message_type.str = PayloadTag.CHA
        THEN ParseFields(payload, PayloadTag.CHA, 1, "BB_EVENT_CHA_RECEIVED", ev)
    ELSE IF message_type.str = PayloadTag.ACC
        THEN ParseFields(payload, PayloadTag.ACC, 1, "BB_EVENT_ACC_RECEIVED", ev)
    ELSE IF message_type.str = PayloadTag.REV
        THEN ParseFields(payload, PayloadTag.REV, 1, "BB_EVENT_REV_RECEIVED", ev)
    ELSE IF message_type.str = PayloadTag.SHO
        THEN ParseFields(payload, PayloadTag.SHO, 2, "BB_EVENT_SHO_RECEIVED", ev)
    ELSE IF message_type.str = PayloadTag.RES
        THEN ParseFields(payload, PayloadTag.RES, 3, "BB_EVENT_RES_RECEIVED", ev)
    ELSE ParseError(ev)

\* ParseChecked without the comparison of the two checksums.
ParseChecked_NoCompare(payload, parsed_checksum, ev) ==
    IF parsed_checksum.n # 1 THEN ParseError(ev)
    ELSE ParseTagged(payload, Sscanf_3s(payload), ev)

\* parsed_checksum is sscanf(checksum_string, "%2X", ...).
ParseChecked(payload, parsed_checksum, ev) ==
    IF parsed_checksum.n # 1 THEN ParseError(ev)
    ELSE IF Message_CalculateChecksum(payload) # U8(parsed_checksum.v) THEN ParseError(ev)
    ELSE ParseTagged(payload, Sscanf_3s(payload), ev)

Message_ParseMessage(payload, checksum_string, message_event, lib) ==
    IF Len(checksum_string) # MESSAGE_CHECKSUM_LEN THEN ParseError(message_event)
    ELSE ParseChecked(payload, Sscanf_2X(checksum_string, lib), message_event)

(***************************************************************************)
(* Message_Encode(message_string, message_to_encode): [len, str].          *)
(* A message is [type, param0, param1, param2], the parameters unsigned    *)
(* int.                                                                    *)
(***************************************************************************)
\* EncodePayload printing the secret of REV into four digits.
EncodePayload_ShortSecret(m) ==
    CASE m.type = "MESSAGE_CHA" -> Append(PayloadTag.CHA, 44) \o UDec(m.param0)
      [] m.type = "MESSAGE_ACC" -> Append(PayloadTag.ACC, 44) \o UDec(m.param0)
      [] m.type = "MESSAGE_REV" -> Append(PayloadTag.REV, 44) \o Truncate(UDec(m.param0), 5)
      [] m.type = "MESSAGE_SHO" ->
            Append(PayloadTag.SHO, 44) \o IDec(m.param0) \o << 44 >> \o IDec(m.param1)
      [] m.type = "MESSAGE_RES" ->
            Append(PayloadTag.RES, 44) \o UDec(m.param0) \o << 44 >> \o UDec(m.param1)
                \o << 44 >> \o UDec(m.param2)

EncodePayload(m) ==
    CASE m.type = "MESSAGE_CHA" -> Append(PayloadTag.CHA, 44) \o UDec(m.param0)
      [] m.type = "MESSAGE_ACC" -> Append(PayloadTag.ACC, 44) \o UDec(m.param0)
      [] m.type = "MESSAGE_REV" -> Append(PayloadTag.REV, 44) \o UDec(m.param0)
      [] m.type = "MESSAGE_SHO" ->
            Append(PayloadTag.SHO, 44) \o IDec(m.param0) \o << 44 >> \o IDec(m.param1)
      [] m.type = "MESSAGE_RES" ->
            Append(PayloadTag.RES, 44) \o UDec(m.param0) \o << 44 >> \o UDec(m.param1)
                \o << 44 >> \o UDec(m.param2)

\* MESSAGE_TEMPLATE "$%s*%02X\r\n"
WrapFrame(payload, checksum) ==
    << 36 >> \o payload \o << 42 >> \o Hex2Upper(checksum) \o << 13, 10 >>

\* snprintf(message_string, MESSAGE_MAX_LEN + 1, ...): the length is that of the
\* whole output, the string what fits.
EncodeResult(full) == [len |-> Len(full), str |-> Truncate(full, MESSAGE_MAX_LEN + 1)]

\* EncodeFrame with the checksum taken over the start delimiter as well.
EncodeFrame_WithDelimiter(payload) ==
    EncodeResult(WrapFrame(payload, Message_CalculateChecksum(<< 36 >> \o payload)))

\* payload is the char array the payload template was printed into.
EncodeFrame(payload) == EncodeResult(WrapFrame(payload, Message_CalculateChecksum(payload)))

Message_Encode(message_to_encode) ==
    IF message_to_encode.type \notin WireTypes THEN [len |-> 0, str |-> << >>]
    ELSE EncodeFrame(CStr(Truncate(EncodePayload(message_to_encode),
                                   MESSAGE_MAX_PAYLOAD_LEN + 1)))

(***************************************************************************)
(* Message_Decode(char_in, decoded_message_event).  d is the decoder's     *)
(* static state [decode_state, payload_buffer, payload_index,              *)
(* checksum_buffer, checksum_index]; a buffer is the sequence of bytes     *)
(* written since the memset at the start delimiter (every byte after them  *)
(* is NUL).  Result: [d, ev, ret, parsed], parsed telling whether          *)
(* Message_ParseMessage was called.                                        *)
(***************************************************************************)
DecodeResult(d, ev, ret) == [d |-> d, ev |-> ev, ret |-> ret, parsed |-> FALSE]

DecodeNoEvent(d, ev) == DecodeResult(d, [ev EXCEPT !.type = "BB_EVENT_NO_EVENT"], "SUCCESS")

\* DecodeError without the return to WAIT_FOR_START_DELIMITER.
DecodeError_NoResync(d, ev) ==
    DecodeResult(d, [ev EXCEPT !.type = "BB_EVENT_ERROR"], "STANDARD_ERROR")

\* An error branch: ERROR event, decoder back to WAIT_FOR_START_DELIMITER.
DecodeError(d, ev) ==
    DecodeResult([d EXCEPT !.decode_state = WAIT_FOR_START_DELIMITER],
                 [ev EXCEPT !.type = "BB_EVENT_ERROR"], "STANDARD_ERROR")

DecodeWaitForStart(d, ev, char_in) ==
    IF char_in = 36
    THEN DecodeNoEvent([decode_state    |-> RECORDING_PAYLOAD,
                        payload_buffer  |-> << >>,
                        payload_index   |-> 0,
                        checksum_buffer |-> << >>,
                        checksum_index  |-> 0], ev)
    ELSE DecodeNoEvent(d, ev)

\* DecodeRecordingPayload without the test of payload_index against the
\* maximum payload length.
DecodeRecordingPayload_NoLimit(d, ev, char_in) ==
    IF char_in = 42
    THEN DecodeNoEvent([d EXCEPT !.decode_state = RECORDING_CHECKSUM], ev)
    ELSE IF char_in = 13 \/ char_in = 36 THEN DecodeError(d, ev)
    ELSE DecodeNoEvent([d EXCEPT !.payload_buffer = Append(@, char_in),
                                 !.payload_index = @ + 1], ev)

\* DecodeRecordingPayload in which a start delimiter opens a new frame.
DecodeRecordingPayload_Restarts(d, ev, char_in) ==
    IF char_in = 42
    THEN DecodeNoEvent([d EXCEPT !.decode_state = RECORDING_CHECKSUM], ev)
    ELSE IF char_in = 36
    THEN DecodeNoEvent([d EXCEPT !.payload_buffer = << >>, !.payload_index = 0], ev)
    ELSE IF char_in = 13 THEN DecodeError(d, ev)
    ELSE IF d.payload_index >= MESSAGE_MAX_PAYLOAD_LEN THEN DecodeError(d, ev)
    ELSE DecodeNoEvent([d EXCEPT !.payload_buffer = Append(@, char_in),
                                 !.payload_index = @ + 1], ev)

DecodeRecordingPayload(d, ev, char_in) ==
    IF char_in = 42
    THEN DecodeNoEvent([d EXCEPT !.decode_state = RECORDING_CHECKSUM], ev)
    ELSE IF char_in = 13 \/ char_in = 36 THEN DecodeError(d, ev)
    ELSE IF d.payload_index >= MESSAGE_MAX_PAYLOAD_LEN THEN DecodeError(d, ev)
    ELSE DecodeNoEvent([d EXCEPT !.payload_buffer = Append(@, char_in),
                                 !.payload_index = @ + 1], ev)

\* The terminating line feed: p is Message_ParseMessage's result.
DecodeParsed(d, p) ==
    [d      |-> [d EXCEPT !.decode_state = WAIT_FOR_START_DELIMITER],
     ev     |-> IF p.ret = "SUCCESS" THEN p.ev ELSE [p.ev EXCEPT !.type = "BB_EVENT_ERROR"],
     ret    |-> IF p.ret = "SUCCESS" THEN "SUCCESS" ELSE "STANDARD_ERROR",
     parsed |-> TRUE]

\* DecodeRecordingChecksum that takes any byte for the carriage return.
DecodeRecordingChecksum_AnyReturn(d, ev, char_in, lib) ==
    IF d.checksum_index < MESSAGE_CHECKSUM_LEN
    THEN IF isxdigit(char_in)
         THEN DecodeNoEvent([d EXCEPT !.checksum_buffer = Append(@, char_in),
                                      !.checksum_index = @ + 1], ev)
         ELSE DecodeError(d, ev)
    ELSE IF d.checksum_index = MESSAGE_CHECKSUM_LEN
    THEN DecodeNoEvent([d EXCEPT !.checksum_index = @ + 1], ev)
    ELSE IF d.checksum_index = MESSAGE_CHECKSUM_LEN + 1
    THEN IF char_in = 10
         THEN DecodeParsed(d, Message_ParseMessage(CStr(d.payload_buffer),
                                                   CStr(d.checksum_buffer), ev, lib))
         ELSE DecodeError(d, ev)
    ELSE DecodeError(d, ev)

DecodeRecordingChecksum(d, ev, char_in, lib) ==
    IF d.checksum_index < MESSAGE_CHECKSUM_LEN
    THEN IF isxdigit(char_in)
         THEN DecodeNoEvent([d EXCEPT !.checksum_buffer = Append(@, char_in),
                                      !.checksum_index = @ + 1], ev)
         ELSE DecodeError(d, ev)
    ELSE IF d.checksum_index = MESSAGE_CHECKSUM_LEN
    THEN IF char_in = 13
         THEN DecodeNoEvent([d EXCEPT !.checksum_index = @ + 1], ev)
         ELSE DecodeError(d, ev)
    ELSE IF d.checksum_index = MESSAGE_CHECKSUM_LEN + 1
    THEN IF char_in = 10
         THEN DecodeParsed(d, Message_ParseMessage(CStr(d.payload_buffer),
                                                   CStr(d.checksum_buffer), ev, lib))
         ELSE DecodeError(d, ev)
    ELSE DecodeError(d, ev)

Message_Decode(d, ev, char_in, lib) ==
    CASE d.decode_state = WAIT_FOR_START_DELIMITER -> DecodeWaitForStart(d, ev, char_in)
      [] d.decode_state = RECORDING_PAYLOAD -> DecodeRecordingPayload(d, ev, char_in)
      [] d.decode_state = RECORDING_CHECKSUM -> DecodeRecordingChecksum(d, ev, char_in, lib)
      [] OTHER -> DecodeError(d, ev)

(***************************************************************************)
(* Negotiation: the commitment and the coin flip.                          *)
(***************************************************************************)
PUBLIC_KEY == 48879

\* (a * a) % PUBLIC_KEY for a < PUBLIC_KEY, by parts that stay in range.
SquareMod(a) ==
    ((((a * (a \div 256)) % PUBLIC_KEY) * 256) + (a * (a % 256))) % PUBLIC_KEY

\* NegotiationHash that halves the secret instead of squaring it.
NegotiationHash_Halved(secret) == secret \div 2

\* NegotiationHash without the reduction modulo PUBLIC_KEY of small squares.
NegotiationHash_Unreduced(secret) ==
    IF secret < 256 THEN secret * secret ELSE SquareMod(secret % PUBLIC_KEY)

NegotiationHash(secret) == SquareMod(secret % PUBLIC_KEY)

\* NegotiationVerify that accepts every revealed secret.
NegotiationVerify_AcceptsAll(secret, commitment) == secret = secret /\ commitment = commitment

NegotiationVerify(secret, commitment) == NegotiationHash(secret) = commitment

RECURSIVE PopCount(_)
PopCount(n) == IF n = 0 THEN 0 ELSE (n % 2) + PopCount(n \div 2)

\* NegotiateCoinFlip on the two low bytes only.
NegotiateCoinFlip_LowByte(a, b) ==
    IF PopCount(BitXor(a % 256, b % 256)) % 2 = 1 THEN "HEADS" ELSE "TAILS"

NegotiateCoinFlip(a, b) == IF PopCount(BitXor(a, b)) % 2 = 1 THEN "HEADS" ELSE "TAILS"

(***************************************************************************)
(* Field.  A field is [grid, smallBoatLives, mediumBoatLives,              *)
(* largeBoatLives, hugeBoatLives], the grid a function of <<row, col>>.    *)
(***************************************************************************)
FIELD_COLS == 10

FIELD_ROWS == 6

\* enum SquareStatus: what a grid square holds.
SquareStatus ==
    [FIELD_SQUARE_EMPTY |-> 0,
     FIELD_SQUARE_SMALL_BOAT |-> 1,
     FIELD_SQUARE_MEDIUM_BOAT |-> 2,
     FIELD_SQUARE_LARGE_BOAT |-> 3,
     FIELD_SQUARE_HUGE_BOAT |-> 4,
     FIELD_SQUARE_UNKNOWN |-> 5,
     FIELD_SQUARE_HIT |-> 6,
     FIELD_SQUARE_MISS |-> 7,
     FIELD_SQUARE_INVALID |-> 9]

\* enum ShotResult: what a shot did.
ShotResult ==
    [RESULT_MISS |-> 0,
     RESULT_HIT |-> 1,
     RESULT_SMALL_BOAT_SUNK |-> 2,
     RESULT_MEDIUM_BOAT_SUNK |-> 3,
     RESULT_LARGE_BOAT_SUNK |-> 4,
     RESULT_HUGE_BOAT_SUNK |-> 5]

\* enum BoatSize: the length of each boat.
BoatSize ==
    [FIELD_BOAT_SIZE_SMALL |-> 3,
     FIELD_BOAT_SIZE_MEDIUM |-> 4,
     FIELD_BOAT_SIZE_LARGE |-> 5,
     FIELD_BOAT_SIZE_HUGE |-> 6]

\* enum BoatStatus: the bit of each boat in FieldGetBoatStates' result.
BoatStatus ==
    [FIELD_BOAT_STATUS_SMALL |-> 1,
     FIELD_BOAT_STATUS_MEDIUM |-> 2,
     FIELD_BOAT_STATUS_LARGE |-> 4,
     FIELD_BOAT_STATUS_HUGE |-> 8]

BoatTypes == {"FIELD_BOAT_TYPE_SMALL", "FIELD_BOAT_TYPE_MEDIUM",
              "FIELD_BOAT_TYPE_LARGE", "FIELD_BOAT_TYPE_HUGE"}

Squares == (0..(FIELD_ROWS - 1)) \X (0..(FIELD_COLS - 1))

\* FieldInit(&ownField, &oppField): the two fields it leaves.
FieldInit ==
    [ownField |-> [grid            |-> [sq \in Squares |-> SquareStatus.FIELD_SQUARE_EMPTY],
                   smallBoatLives  |-> 0,
                   mediumBoatLives |-> 0,
                   largeBoatLives  |-> 0,
                   hugeBoatLives   |-> 0],
     oppField |-> [grid            |-> [sq \in Squares |-> SquareStatus.FIELD_SQUARE_UNKNOWN],
                   smallBoatLives  |-> BoatSize.FIELD_BOAT_SIZE_SMALL,
                   mediumBoatLives |-> BoatSize.FIELD_BOAT_SIZE_MEDIUM,
                   largeBoatLives  |-> BoatSize.FIELD_BOAT_SIZE_LARGE,
                   hugeBoatLives   |-> BoatSize.FIELD_BOAT_SIZE_HUGE]]

\* The first switch of FieldAddBoat: length and boatStatus.
BoatLength(boatType) ==
    CASE boatType = "FIELD_BOAT_TYPE_SMALL"  -> BoatSize.FIELD_BOAT_SIZE_SMALL
      [] boatType = "FIELD_BOAT_TYPE_MEDIUM" -> BoatSize.FIELD_BOAT_SIZE_MEDIUM
      [] boatType = "FIELD_BOAT_TYPE_LARGE"  -> BoatSize.FIELD_BOAT_SIZE_LARGE
      [] boatType = "FIELD_BOAT_TYPE_HUGE"   -> BoatSize.FIELD_BOAT_SIZE_HUGE

BoatSquareStatus(boatType) ==
    CASE boatType = "FIELD_BOAT_TYPE_SMALL"  -> SquareStatus.FIELD_SQUARE_SMALL_BOAT
      [] boatType = "FIELD_BOAT_TYPE_MEDIUM" -> SquareStatus.FIELD_SQUARE_MEDIUM_BOAT
      [] boatType = "FIELD_BOAT_TYPE_LARGE"  -> SquareStatus.FIELD_SQUARE_LARGE_BOAT
      [] boatType = "FIELD_BOAT_TYPE_HUGE"   -> SquareStatus.FIELD_SQUARE_HUGE_BOAT

\* The squares <<r, c>> the two loops of FieldAddBoat visit.
BoatSquares(row, col, dir, length) ==
    {<< row + (IF dir = "FIELD_DIR_SOUTH" THEN i ELSE 0),
        col + (IF dir = "FIELD_DIR_EAST" THEN i ELSE 0) >> : i \in 0..(length - 1)}

\* The last switch of FieldAddBoat.
AddLives(f, boatType, length) ==
    CASE boatType = "FIELD_BOAT_TYPE_SMALL"  -> [f EXCEPT !.smallBoatLives = U8(@ + length)]
      [] boatType = "FIELD_BOAT_TYPE_MEDIUM" -> [f EXCEPT !.mediumBoatLives = U8(@ + length)]
      [] boatType = "FIELD_BOAT_TYPE_LARGE"  -> [f EXCEPT !.largeBoatLives = U8(@ + length)]
      [] boatType = "FIELD_BOAT_TYPE_HUGE"   -> [f EXCEPT !.hugeBoatLives = U8(@ + length)]

PlaceSquares(f, cells, boatStatus) ==
    [f EXCEPT !.grid = [sq \in Squares |-> IF sq \in cells THEN boatStatus ELSE @[sq]]]

\* FieldAddBoat without the overlap loop.
FieldAddBoat_NoOverlapCheck(ownField, row, col, dir, boatType) ==
    IF boatType \notin BoatTypes
    THEN [ret |-> "STANDARD_ERROR", field |-> ownField]
    ELSE IF \/ dir = "FIELD_DIR_EAST" /\ col + BoatLength(boatType) > FIELD_COLS
            \/ dir = "FIELD_DIR_SOUTH" /\ row + BoatLength(boatType) > FIELD_ROWS
    THEN [ret |-> "STANDARD_ERROR", field |-> ownField]
    ELSE [ret   |-> "SUCCESS",
          field |-> AddLives(PlaceSquares(ownField,
                                          BoatSquares(row, col, dir, BoatLength(boatType)),
                                          BoatSquareStatus(boatType)),
                             boatType, BoatLength(boatType))]

\* FieldAddBoat(ownField, row, col, dir, boatType) for a start square inside
\* the grid, which is what FieldAIPlaceAllBoats passes: [ret, field].
FieldAddBoat(ownField, row, col, dir, boatType) ==
    IF boatType \notin BoatTypes
    THEN [ret |-> "STANDARD_ERROR", field |-> ownField]
    ELSE IF \/ dir = "FIELD_DIR_EAST" /\ col + BoatLength(boatType) > FIELD_COLS
            \/ dir = "FIELD_DIR_SOUTH" /\ row + BoatLength(boatType) > FIELD_ROWS
    THEN [ret |-> "STANDARD_ERROR", field |-> ownField]
    ELSE IF \E sq \in BoatSquares(row, col, dir, BoatLength(boatType)) :
                ownField.grid[sq] # SquareStatus.FIELD_SQUARE_EMPTY
    THEN [ret |-> "STANDARD_ERROR", field |-> ownField]
    ELSE [ret   |-> "SUCCESS",
          field |-> AddLives(PlaceSquares(ownField,
                                          BoatSquares(row, col, dir, BoatLength(boatType)),
                                          BoatSquareStatus(boatType)),
                             boatType, BoatLength(boatType))]

\* Where grid[r][c] lies when r or c is outside the grid: the grid is an array
\* of FIELD_ROWS rows of FIELD_COLS squares, so the square is FIELD_COLS * r + c
\* squares from the start; << >> when that is beyond the whole grid.
FlatSquare(sq) ==
    IF FIELD_COLS * sq[1] + sq[2] < FIELD_ROWS * FIELD_COLS
    THEN << (FIELD_COLS * sq[1] + sq[2]) \div FIELD_COLS, (FIELD_COLS * sq[1] + sq[2]) % FIELD_COLS >>
    ELSE << >>

\* The squares of the grid an access to the squares cells touches.
GridSquares(cells) == {FlatSquare(sq) : sq \in cells} \cap Squares

\* FieldAddBoat for a boat that passes the boundary test with a start row or
\* column outside the grid: both loops index grid[r][c] outside the array,
\* which is undefined.  The outcomes: a square read is not 0 and the call
\* fails, or every square read is 0, the writes land where the squares lie
\* in memory and the lives grow.
AddBoatOutside(ownField, cells, boatType) ==
    {[ret |-> "STANDARD_ERROR", field |-> ownField, outside |-> TRUE]}
    \cup {[ret     |-> "SUCCESS",
           field   |-> AddLives(PlaceSquares(ownField, GridSquares(cells), BoatSquareStatus(boatType)),
                                boatType, BoatLength(boatType)),
           outside |-> TRUE] :
            ok \in {sq \in {<< >>} : \A g \in GridSquares(cells) :
                        ownField.grid[g] = SquareStatus.FIELD_SQUARE_EMPTY}}

\* FieldAddBoat(ownField, row, col, dir, boatType) for any row and column:
\* the set of [ret, field, outside], outside telling whether a square
\* outside the grid was read or written.
FieldAddBoatOutcomes(ownField, row, col, dir, boatType) ==
    IF /\ boatType \in BoatTypes
       /\ ~(dir = "FIELD_DIR_EAST" /\ col + BoatLength(boatType) > FIELD_COLS)
       /\ ~(dir = "FIELD_DIR_SOUTH" /\ row + BoatLength(boatType) > FIELD_ROWS)
       /\ ~(BoatSquares(row, col, dir, BoatLength(boatType)) \subseteq Squares)
    THEN AddBoatOutside(ownField, BoatSquares(row, col, dir, BoatLength(boatType)), boatType)
    ELSE {[ret     |-> FieldAddBoat(ownField, row, col, dir, boatType).ret,
           field   |-> FieldAddBoat(ownField, row, col, dir, boatType).field,
           outside |-> FALSE]}

\* Decrement without the decrement.
Decrement_Skipped(lives) == lives

\* The result of an attack on a square that holds a boat whose lives, after
\* the decrement, are lives.
SunkOrHit(lives, sunk) == IF lives = 0 THEN sunk ELSE ShotResult.RESULT_HIT

Decrement(lives) == IF lives > 0 THEN lives - 1 ELSE lives

AttackResult(field, result, current) == [field |-> field, result |-> result, ret |-> current]

\* FieldRegisterEnemyAttack(ownField, opp_guess) on opp_guess = (row, col):
\* [field, result, ret], result what it stores in opp_guess->result.
FieldRegisterEnemyAttack(ownField, row, col) ==
    IF row >= FIELD_ROWS \/ col >= FIELD_COLS
    THEN AttackResult(ownField, ShotResult.RESULT_MISS, SquareStatus.FIELD_SQUARE_INVALID)
    ELSE CASE ownField.grid[<< row, col >>] = SquareStatus.FIELD_SQUARE_SMALL_BOAT ->
                AttackResult([ownField EXCEPT !.grid[<< row, col >>] = SquareStatus.FIELD_SQUARE_HIT,
                                              !.smallBoatLives = Decrement(@)],
                             SunkOrHit(Decrement(ownField.smallBoatLives), ShotResult.RESULT_SMALL_BOAT_SUNK),
                             SquareStatus.FIELD_SQUARE_SMALL_BOAT)
           [] ownField.grid[<< row, col >>] = SquareStatus.FIELD_SQUARE_MEDIUM_BOAT ->
                AttackResult([ownField EXCEPT !.grid[<< row, col >>] = SquareStatus.FIELD_SQUARE_HIT,
                                              !.mediumBoatLives = Decrement(@)],
                             SunkOrHit(Decrement(ownField.mediumBoatLives), ShotResult.RESULT_MEDIUM_BOAT_SUNK),
                             SquareStatus.FIELD_SQUARE_MEDIUM_BOAT)
           [] ownField.grid[<< row, col >>] = SquareStatus.FIELD_SQUARE_LARGE_BOAT ->
                AttackResult([ownField EXCEPT !.grid[<< row, col >>] = SquareStatus.FIELD_SQUARE_HIT,
                                              !.largeBoatLives = Decrement(@)],
                             SunkOrHit(Decrement(ownField.largeBoatLives), ShotResult.RESULT_LARGE_BOAT_SUNK),
                             SquareStatus.FIELD_SQUARE_LARGE_BOAT)
           [] ownField.grid[<< row, col >>] = SquareStatus.FIELD_SQUARE_HUGE_BOAT ->
                AttackResult([ownField EXCEPT !.grid[<< row, col >>] = SquareStatus.FIELD_SQUARE_HIT,
                                              !.hugeBoatLives = Decrement(@)],
                             SunkOrHit(Decrement(ownField.hugeBoatLives), ShotResult.RESULT_HUGE_BOAT_SUNK),
                             SquareStatus.FIELD_SQUARE_HUGE_BOAT)
           [] ownField.grid[<< row, col >>] = SquareStatus.FIELD_SQUARE_EMPTY ->
                AttackResult([ownField EXCEPT !.grid[<< row, col >>] = SquareStatus.FIELD_SQUARE_MISS],
                             ShotResult.RESULT_MISS, SquareStatus.FIELD_SQUARE_EMPTY)
           [] OTHER ->
                AttackResult(ownField, ShotResult.RESULT_MISS, ownField.grid[<< row, col >>])

\* The first switch of FieldUpdateKnowledge.
KnownSquare(prevStatus, result) ==
    IF result \in {ShotResult.RESULT_HIT, ShotResult.RESULT_SMALL_BOAT_SUNK, ShotResult.RESULT_MEDIUM_BOAT_SUNK,
                   ShotResult.RESULT_LARGE_BOAT_SUNK, ShotResult.RESULT_HUGE_BOAT_SUNK}
    THEN SquareStatus.FIELD_SQUARE_HIT
    ELSE IF result = ShotResult.RESULT_MISS THEN SquareStatus.FIELD_SQUARE_MISS
    ELSE prevStatus

\* KnownLives that takes every hit on the last boat standing for its sinking.
KnownLives_HitSinks(f, result) ==
    IF result = ShotResult.RESULT_HIT THEN [f EXCEPT !.hugeBoatLives = 0]
    ELSE CASE result = ShotResult.RESULT_SMALL_BOAT_SUNK  -> [f EXCEPT !.smallBoatLives = 0]
           [] result = ShotResult.RESULT_MEDIUM_BOAT_SUNK -> [f EXCEPT !.mediumBoatLives = 0]
           [] result = ShotResult.RESULT_LARGE_BOAT_SUNK  -> [f EXCEPT !.largeBoatLives = 0]
           [] result = ShotResult.RESULT_HUGE_BOAT_SUNK   -> [f EXCEPT !.hugeBoatLives = 0]
           [] OTHER -> f

\* The second switch of FieldUpdateKnowledge.
KnownLives(f, result) ==
    CASE result = ShotResult.RESULT_SMALL_BOAT_SUNK  -> [f EXCEPT !.smallBoatLives = 0]
      [] result = ShotResult.RESULT_MEDIUM_BOAT_SUNK -> [f EXCEPT !.mediumBoatLives = 0]
      [] result = ShotResult.RESULT_LARGE_BOAT_SUNK  -> [f EXCEPT !.largeBoatLives = 0]
      [] result = ShotResult.RESULT_HUGE_BOAT_SUNK   -> [f EXCEPT !.hugeBoatLives = 0]
      [] OTHER -> f

\* FieldUpdateKnowledge(oppField, own_guess): [field, ret].
FieldUpdateKnowledge(oppField, own_guess) ==
    IF own_guess.row >= FIELD_ROWS \/ own_guess.col >= FIELD_COLS
    THEN [field |-> oppField, ret |-> SquareStatus.FIELD_SQUARE_INVALID]
    ELSE [field |-> KnownLives([oppField EXCEPT !.grid[<< own_guess.row, own_guess.col >>] =
                                                    KnownSquare(@, own_guess.result)],
                               own_guess.result),
          ret   |-> oppField.grid[<< own_guess.row, own_guess.col >>]]

FieldGetBoatStates(f) ==
    (IF f.smallBoatLives > 0 THEN BoatStatus.FIELD_BOAT_STATUS_SMALL ELSE 0)
    + (IF f.mediumBoatLives > 0 THEN BoatStatus.FIELD_BOAT_STATUS_MEDIUM ELSE 0)
    + (IF f.largeBoatLives > 0 THEN BoatStatus.FIELD_BOAT_STATUS_LARGE ELSE 0)
    + (IF f.hugeBoatLives > 0 THEN BoatStatus.FIELD_BOAT_STATUS_HUGE ELSE 0)

\* What the three rand() calls of one placement attempt may give.
RandPlacements == {
    << 0, 0, "FIELD_DIR_SOUTH" >>,
    << 0, 5, "FIELD_DIR_EAST" >>,
    << 3, 6, "FIELD_DIR_EAST" >>,
    << 4, 7, "FIELD_DIR_EAST" >>,
    << 5, 7, "FIELD_DIR_EAST" >> }

\* The attempts on which the while loop of FieldAIPlaceAllBoats ends.
PlaceOne(f, boatType) ==
    {FieldAddBoat(f, p[1], p[2], p[3], boatType).field :
        p \in {q \in RandPlacements : FieldAddBoat(f, q[1], q[2], q[3], boatType).ret = "SUCCESS"}}

RECURSIVE PlaceBoats(_, _)
PlaceBoats(fields, boatTypes) ==
    IF boatTypes = << >> THEN fields
    ELSE PlaceBoats(UNION {PlaceOne(f, Head(boatTypes)) : f \in fields}, Tail(boatTypes))

\* FieldAIPlaceAllBoats(ownField): the fields it may leave; it returns SUCCESS
\* whenever it returns.
FieldAIPlaceAllBoats(ownField) ==
    PlaceBoats({ownField}, << "FIELD_BOAT_TYPE_HUGE", "FIELD_BOAT_TYPE_LARGE",
                              "FIELD_BOAT_TYPE_MEDIUM", "FIELD_BOAT_TYPE_SMALL" >>)

\* The first square of S in the order of the nested row and column loops.
FirstSquare(S) ==
    CHOOSE s \in S : \A t \in S : s[1] < t[1] \/ (s[1] = t[1] /\ s[2] <= t[2])

Guess(row, col) == [row |-> row, col |-> col, result |-> ShotResult.RESULT_MISS]

HuntSquares(oppField) ==
    {sq \in Squares : (sq[1] + sq[2]) % 4 = 0 /\ oppField.grid[sq] = SquareStatus.FIELD_SQUARE_UNKNOWN}

UnknownSquares(oppField) == {sq \in Squares : oppField.grid[sq] = SquareStatus.FIELD_SQUARE_UNKNOWN}

\* Values the row and col of guess may hold when nothing was assigned to them.
UninitBytes == {0, 255}

\* FieldAIDecideGuess that starts every hunt from the first square.
FieldAIDecideGuess_FirstSquare(oppField) ==
    {Guess(0, 0) : f \in {oppField}}

\* FieldAIDecideGuess(oppField): the guesses it may return.  Its static
\* lastGuess is never assigned, so lastGuess.result stays ShotResult.RESULT_MISS and
\* targeting stays 0: the function goes to the hunt loop, then to the
\* fallback loop, and with no UNKNOWN square returns guess as declared.
FieldAIDecideGuess(oppField) ==
    IF HuntSquares(oppField) # {}
    THEN {Guess(FirstSquare(HuntSquares(oppField))[1], FirstSquare(HuntSquares(oppField))[2])}
    ELSE IF UnknownSquares(oppField) # {}
    THEN {Guess(FirstSquare(UnknownSquares(oppField))[1],
                FirstSquare(UnknownSquares(oppField))[2])}
    ELSE {Guess(r, c) : r \in UninitBytes, c \in UninitBytes}

(***************************************************************************)
(* The display.  An OLED is [buffer, screen]: what has been drawn since    *)
(* the last clear, and what the last update put on the panel.              *)
(***************************************************************************)
OLED_Init == [buffer |-> "", screen |-> ""]

OLED_Clear(oled) == [oled EXCEPT !.buffer = ""]

OLED_DrawString(oled, string) == [oled EXCEPT !.buffer = string]

OLED_Update(oled) == [oled EXCEPT !.screen = oled.buffer]

\* FieldOledDrawScreen draws both fields and updates the panel.
FieldOledDrawScreen(oled) == [buffer |-> "FIELDS", screen |-> "FIELDS"]

(***************************************************************************)
(* Agent.  An agent is the record of Agent.c's statics and of its display. *)
(* AgentRun(ag, event, rnd) is [agent, msg]; rnd holds what rand() and the *)
(* Field AI give to this call: [secret, placed, guess].                    *)
(***************************************************************************)
NoGuess == [row |-> 0, col |-> 0, result |-> ShotResult.RESULT_MISS]

\* Messages and events share the shape [type, param0, param1, param2].
Msg(t, a, b, c) == [type |-> t, param0 |-> a, param1 |-> b, param2 |-> c]

\* Message messageToSend = { .type = MESSAGE_NONE };
MessageNone == Msg("MESSAGE_NONE", 0, 0, 0)

\* AgentInit without the call of FieldInit.
AgentInit_KeepsFields(ag) ==
    [ag EXCEPT !.oled = OLED_Init,
               !.agentState = "AGENT_STATE_START",
               !.turn_counter = 0,
               !.A = 0, !.B = 0, !.hashA = 0,
               !.playerTurn = "FIELD_OLED_TURN_NONE",
               !.endScreenDrawn = FALSE]

\* The statics as the program starts, followed by AgentInit().
AgentInit(ag) ==
    [ag EXCEPT !.oled = OLED_Init,
               !.agentState = "AGENT_STATE_START",
               !.turn_counter = 0,
               !.A = 0, !.B = 0, !.hashA = 0,
               !.playerTurn = "FIELD_OLED_TURN_NONE",
               !.endScreenDrawn = FALSE,
               !.ownField = FieldInit.ownField,
               !.oppField = FieldInit.oppField]

AgentStatics ==
    [agentState     |-> "AGENT_STATE_START",
     turn_counter   |-> 0,
     oppField       |-> FieldInit.oppField,
     ownField       |-> FieldInit.ownField,
     A              |-> 0,
     B              |-> 0,
     hashA          |-> 0,
     own_guess      |-> NoGuess,
     playerTurn     |-> "FIELD_OLED_TURN_NONE",
     turn_order     |-> "HEADS",
     endScreenDrawn |-> FALSE,
     oled           |-> OLED_Init]

Returned(ag, msg) == [agent |-> ag, msg |-> msg]

\* if (event.type == BB_EVENT_RESET_BUTTON)
RunReset(ag) ==
    Returned([AgentInit(ag) EXCEPT !.oled = OLED_Update(OLED_DrawString(OLED_Clear(@), "BATTLEBOATS"))],
             MessageNone)

\* RunStartShown sending CHA with the commitment of the secret held before
\* the new one is drawn.
RunStartShown_StaleCommitment(ag, event, rnd) ==
    IF event.type = "BB_EVENT_START_BUTTON"
    THEN Returned([ag EXCEPT !.A = rnd.secret,
                             !.hashA = NegotiationHash(ag.A),
                             !.ownField = rnd.placed,
                             !.agentState = "AGENT_STATE_CHALLENGING",
                             !.oled = FieldOledDrawScreen(@)],
                  Msg("MESSAGE_CHA", NegotiationHash(ag.A), 0, 0))
    ELSE IF event.type = "BB_EVENT_CHA_RECEIVED"
    THEN Returned([ag EXCEPT !.hashA = event.param0,
                             !.B = rnd.secret,
                             !.ownField = rnd.placed,
                             !.agentState = "AGENT_STATE_ACCEPTING",
                             !.oled = FieldOledDrawScreen(@)],
                  Msg("MESSAGE_ACC", rnd.secret, 0, 0))
    ELSE Returned(ag, MessageNone)

\* RunStartShown not storing the commitment received in CHA.
RunStartShown_CommitmentDropped(ag, event, rnd) ==
    IF event.type = "BB_EVENT_START_BUTTON"
    THEN Returned([ag EXCEPT !.A = rnd.secret,
                             !.hashA = NegotiationHash(rnd.secret),
                             !.ownField = rnd.placed,
                             !.agentState = "AGENT_STATE_CHALLENGING",
                             !.oled = FieldOledDrawScreen(@)],
                  Msg("MESSAGE_CHA", NegotiationHash(rnd.secret), 0, 0))
    ELSE IF event.type = "BB_EVENT_CHA_RECEIVED"
    THEN Returned([ag EXCEPT !.B = rnd.secret,
                             !.ownField = rnd.placed,
                             !.agentState = "AGENT_STATE_ACCEPTING",
                             !.oled = FieldOledDrawScreen(@)],
                  Msg("MESSAGE_ACC", rnd.secret, 0, 0))
    ELSE Returned(ag, MessageNone)

\* case AGENT_STATE_START; ag already shows the banner.
RunStartShown(ag, event, rnd) ==
    IF event.type = "BB_EVENT_START_BUTTON"
    THEN Returned([ag EXCEPT !.A = rnd.secret,
                             !.hashA = NegotiationHash(rnd.secret),
                             !.ownField = rnd.placed,
                             !.agentState = "AGENT_STATE_CHALLENGING",
                             !.oled = FieldOledDrawScreen(@)],
                  Msg("MESSAGE_CHA", NegotiationHash(rnd.secret), 0, 0))
    ELSE IF event.type = "BB_EVENT_CHA_RECEIVED"
    THEN Returned([ag EXCEPT !.hashA = event.param0,
                             !.B = rnd.secret,
                             !.ownField = rnd.placed,
                             !.agentState = "AGENT_STATE_ACCEPTING",
                             !.oled = FieldOledDrawScreen(@)],
                  Msg("MESSAGE_ACC", rnd.secret, 0, 0))
    ELSE Returned(ag, MessageNone)

RunStart(ag, event, rnd) ==
    RunStartShown([ag EXCEPT !.oled = OLED_Update(OLED_DrawString(OLED_Clear(@), "BATTLEBOATS"))],
                  event, rnd)

\* RunChallenging with the two branches of the coin flip exchanged.
RunChallenging_BranchesSwapped(ag, event) ==
    IF event.type = "BB_EVENT_ACC_RECEIVED"
    THEN IF NegotiateCoinFlip(ag.A, event.param0) = "TAILS"
         THEN Returned([ag EXCEPT !.turn_order = "HEADS",
                                  !.playerTurn = "FIELD_OLED_TURN_MINE",
                                  !.agentState = "AGENT_STATE_WAITING_TO_SEND",
                                  !.oled = FieldOledDrawScreen(@)],
                       Msg("MESSAGE_REV", ag.A, 0, 0))
         ELSE Returned([ag EXCEPT !.turn_order = "TAILS",
                                  !.playerTurn = "FIELD_OLED_TURN_THEIRS",
                                  !.agentState = "AGENT_STATE_DEFENDING",
                                  !.oled = FieldOledDrawScreen(@)],
                       Msg("MESSAGE_REV", ag.A, 0, 0))
    ELSE Returned(ag, MessageNone)

\* case AGENT_STATE_CHALLENGING
RunChallenging(ag, event) ==
    IF event.type = "BB_EVENT_ACC_RECEIVED"
    THEN IF NegotiateCoinFlip(ag.A, event.param0) = "HEADS"
         THEN Returned([ag EXCEPT !.turn_order = "HEADS",
                                  !.playerTurn = "FIELD_OLED_TURN_MINE",
                                  !.agentState = "AGENT_STATE_WAITING_TO_SEND",
                                  !.oled = FieldOledDrawScreen(@)],
                       Msg("MESSAGE_REV", ag.A, 0, 0))
         ELSE Returned([ag EXCEPT !.turn_order = "TAILS",
                                  !.playerTurn = "FIELD_OLED_TURN_THEIRS",
                                  !.agentState = "AGENT_STATE_DEFENDING",
                                  !.oled = FieldOledDrawScreen(@)],
                       Msg("MESSAGE_REV", ag.A, 0, 0))
    ELSE Returned(ag, MessageNone)

CheatBanner == "ERROR: Cheating Detected"

\* The else branch of the verification, turn_order being the coin flip.
RunAcceptingVerified(ag, turn_order, guess) ==
    IF turn_order = "TAILS"
    THEN Returned([ag EXCEPT !.turn_order = turn_order,
                             !.own_guess = guess,
                             !.playerTurn = "FIELD_OLED_TURN_MINE",
                             !.agentState = "AGENT_STATE_ATTACKING",
                             !.oled = FieldOledDrawScreen(@)],
                  Msg("MESSAGE_SHO", guess.row, guess.col, 0))
    ELSE Returned([ag EXCEPT !.turn_order = turn_order,
                             !.own_guess = guess,
                             !.playerTurn = "FIELD_OLED_TURN_THEIRS",
                             !.agentState = "AGENT_STATE_DEFENDING",
                             !.oled = FieldOledDrawScreen(@)],
                  Msg("MESSAGE_SHO", guess.row, guess.col, 0))

\* RunAccepting without the verification of the revealed secret.
RunAccepting_NoVerify(ag, event, rnd) ==
    IF event.type = "BB_EVENT_REV_RECEIVED"
    THEN RunAcceptingVerified(ag, NegotiateCoinFlip(event.param1, ag.B), rnd.guess)
    ELSE Returned(ag, MessageNone)

\* case AGENT_STATE_ACCEPTING
RunAccepting(ag, event, rnd) ==
    IF event.type = "BB_EVENT_REV_RECEIVED"
    THEN IF ~NegotiationVerify(event.param0, ag.hashA)
         THEN Returned([ag EXCEPT !.agentState = "AGENT_STATE_END_SCREEN",
                                  !.oled = OLED_Update(OLED_DrawString(OLED_Clear(@),
                                                                       CheatBanner))],
                       MessageNone)
         ELSE RunAcceptingVerified(ag, NegotiateCoinFlip(event.param1, ag.B), rnd.guess)
    ELSE Returned(ag, MessageNone)

\* RunAttackingUpdated without the test of the opponent's boat states.
RunAttackingUpdated_NoVictory(ag, own_guess, oppField) ==
    Returned([ag EXCEPT !.own_guess = own_guess,
                        !.oppField = oppField,
                        !.oled = OLED_Update(FieldOledDrawScreen(@)),
                        !.agentState = "AGENT_STATE_DEFENDING"],
             MessageNone)

\* The end of the RES_RECEIVED branch: oppField is the updated field.
RunAttackingUpdated(ag, own_guess, oppField) ==
    IF FieldGetBoatStates(oppField) = 0
    THEN Returned([ag EXCEPT !.own_guess = own_guess,
                             !.oppField = oppField,
                             !.oled = OLED_Update(OLED_DrawString(OLED_Clear(@), "VICTORY")),
                             !.agentState = "AGENT_STATE_END_SCREEN"],
                  MessageNone)
    ELSE Returned([ag EXCEPT !.own_guess = own_guess,
                             !.oppField = oppField,
                             !.oled = OLED_Update(FieldOledDrawScreen(@)),
                             !.agentState = "AGENT_STATE_DEFENDING"],
                  MessageNone)

\* RunAttackingGuess testing the boat states read before the update.
RunAttackingGuess_StaleStates(ag, own_guess) ==
    IF FieldGetBoatStates(ag.oppField) = 0
    THEN RunAttackingUpdated(ag, own_guess, FieldUpdateKnowledge(ag.oppField, own_guess).field)
    ELSE RunAttackingUpdated_NoVictory(ag, own_guess,
                                       FieldUpdateKnowledge(ag.oppField, own_guess).field)

RunAttackingGuess(ag, own_guess) ==
    RunAttackingUpdated(ag, own_guess, FieldUpdateKnowledge(ag.oppField, own_guess).field)

\* RunAttacking updating the square that the RES message names.
RunAttacking_MessageSquare(ag, event) ==
    IF event.type = "BB_EVENT_RES_RECEIVED"
    THEN RunAttackingGuess(ag, [row |-> U8(event.param0), col |-> U8(event.param1),
                                result |-> event.param2])
    ELSE Returned(ag, MessageNone)

\* case AGENT_STATE_ATTACKING
RunAttacking(ag, event) ==
    IF event.type = "BB_EVENT_RES_RECEIVED"
    THEN RunAttackingGuess(ag, [ag.own_guess EXCEPT !.result = event.param2])
    ELSE Returned(ag, MessageNone)

\* The end of the SHO_RECEIVED branch: attack is FieldRegisterEnemyAttack's
\* result, whose return value is what incomingGuess.result is assigned.
RunDefendingAttacked(ag, row, col, attack) ==
    Returned([ag EXCEPT !.ownField = attack.field,
                        !.oled = OLED_Update(FieldOledDrawScreen(@)),
                        !.agentState = IF FieldGetBoatStates(attack.field) = 0
                                       THEN "AGENT_STATE_END_SCREEN"
                                       ELSE "AGENT_STATE_WAITING_TO_SEND"],
             Msg("MESSAGE_RES", row, col, attack.ret))

\* case AGENT_STATE_DEFENDING; GuessData's row and col are uint8_t.
RunDefending(ag, event) ==
    IF event.type = "BB_EVENT_SHO_RECEIVED"
    THEN RunDefendingAttacked(ag, U8(event.param0), U8(event.param1),
                              FieldRegisterEnemyAttack(ag.ownField, U8(event.param0),
                                                       U8(event.param1)))
    ELSE Returned(ag, MessageNone)

\* RunWaitingToSend sending the guess on every event.
RunWaitingToSend_AnyEvent(ag, event, rnd) ==
    Returned([ag EXCEPT !.turn_counter = U8(@ + 1),
                        !.own_guess = rnd.guess,
                        !.agentState = "AGENT_STATE_ATTACKING",
                        !.oled = FieldOledDrawScreen(@)],
             Msg("MESSAGE_SHO", rnd.guess.row, rnd.guess.col, 0))

\* case AGENT_STATE_WAITING_TO_SEND
RunWaitingToSend(ag, event, rnd) ==
    IF event.type = "BB_EVENT_MESSAGE_SENT"
    THEN Returned([ag EXCEPT !.turn_counter = U8(@ + 1),
                             !.own_guess = rnd.guess,
                             !.agentState = "AGENT_STATE_ATTACKING",
                             !.oled = FieldOledDrawScreen(@)],
                  Msg("MESSAGE_SHO", rnd.guess.row, rnd.guess.col, 0))
    ELSE Returned(ag, MessageNone)

\* EndScreenString with victory and defeat exchanged.
EndScreenString_Exchanged(oppState, ownState) ==
    IF oppState = 0 /\ ownState # 0 THEN "ALAS DEFEAT..."
    ELSE IF ownState = 0 /\ oppState # 0 THEN "VICTORY"
    ELSE IF ownState = 0 /\ oppState = 0 THEN "DRAW"
    ELSE ""

\* The string the end screen draws for the two boat states, "" for none.
EndScreenString(oppState, ownState) ==
    IF oppState = 0 /\ ownState # 0 THEN "VICTORY"
    ELSE IF ownState = 0 /\ oppState # 0 THEN "ALAS DEFEAT..."
    ELSE IF ownState = 0 /\ oppState = 0 THEN "DRAW"
    ELSE ""

\* RunEndScreen that leaves for DEFENDING once the outcome is drawn.
RunEndScreen_PlaysOn(ag) ==
    IF ~ag.endScreenDrawn
    THEN Returned([ag EXCEPT !.oled = OLED_Update(OLED_DrawString(OLED_Clear(@),
                                  EndScreenString(FieldGetBoatStates(ag.oppField),
                                                  FieldGetBoatStates(ag.ownField)))),
                             !.endScreenDrawn = TRUE],
                  MessageNone)
    ELSE Returned([ag EXCEPT !.agentState = "AGENT_STATE_DEFENDING"], MessageNone)

\* RunEndScreen going back to the start state.
RunEndScreen_Restarts(ag) ==
    Returned([ag EXCEPT !.agentState = "AGENT_STATE_START"], MessageNone)

\* case AGENT_STATE_END_SCREEN
RunEndScreen(ag) ==
    IF ~ag.endScreenDrawn
    THEN Returned([ag EXCEPT !.oled = OLED_Update(OLED_DrawString(OLED_Clear(@),
                                  EndScreenString(FieldGetBoatStates(ag.oppField),
                                                  FieldGetBoatStates(ag.ownField)))),
                             !.endScreenDrawn = TRUE],
                  MessageNone)
    ELSE Returned(ag, MessageNone)

AgentRun(ag, event, rnd) ==
    IF event.type = "BB_EVENT_RESET_BUTTON" THEN RunReset(ag)
    ELSE CASE ag.agentState = "AGENT_STATE_START" -> RunStart(ag, event, rnd)
           [] ag.agentState = "AGENT_STATE_CHALLENGING" -> RunChallenging(ag, event)
           [] ag.agentState = "AGENT_STATE_ACCEPTING" -> RunAccepting(ag, event, rnd)
           [] ag.agentState = "AGENT_STATE_ATTACKING" -> RunAttacking(ag, event)
           [] ag.agentState = "AGENT_STATE_DEFENDING" -> RunDefending(ag, event)
           [] ag.agentState = "AGENT_STATE_WAITING_TO_SEND" -> RunWaitingToSend(ag, event, rnd)
           [] ag.agentState = "AGENT_STATE_END_SCREEN" -> RunEndScreen(ag)

(***************************************************************************)
(* State.                                                                  *)
(***************************************************************************)
VARIABLES
    \* Message.c statics
    decode_state, payload_buffer, checksum_buffer, payload_index, checksum_index,
    \* the caller's BB_Event that Message_Decode writes, and its return value
    decoded_message_event, decode_ret,
    \* the C library of the build: how sscanf treats a bare "0x" ("strict" | "lenient")
    libc,
    \* the byte stream still to be fed to Message_Decode, and what was put on it
    wire, frame,
    \* the last Message_Decode call, and the tally of the frame being decoded
    io, tally,
    \* a direct call of Message_ParseMessage: its arguments and its result
    parse_in, parse_out,
    agent, run, chan, confirm, rx_event, steps,
    \* a direct call of the Negotiation functions: its arguments and results
    neg,
    \* a direct call of a Field function: the two fields, and the call
    fields, fcall,
    \* FieldAIPlaceAllBoats at work on fields.ownField: its position
    place

decoderVars == << decode_state, payload_buffer, checksum_buffer, payload_index, checksum_index >>

codecVars == << decode_state, payload_buffer, checksum_buffer, payload_index, checksum_index,
                decoded_message_event, decode_ret, wire, frame, io, tally >>

parseVars == << parse_in, parse_out >>

gameVars == << agent, run, chan, confirm, rx_event, steps >>

libVars == << neg, fields, fcall, place >>

vars == << codecVars, parseVars, gameVars, libc, libVars >>

Libcs == {"strict", "lenient"}

\* The value a caller's event struct holds before the codec has written it.
FreshEvent == [type |-> "BB_EVENT_NO_EVENT", param0 |-> 0, param1 |-> 0, param2 |-> 0]

Decoder == [decode_state    |-> decode_state,
            payload_buffer  |-> payload_buffer,
            payload_index   |-> payload_index,
            checksum_buffer |-> checksum_buffer,
            checksum_index  |-> checksum_index]

NoCall == [called |-> FALSE, char |-> 0, from |-> WAIT_FOR_START_DELIMITER,
           checksum_index |-> 0, digits |-> 0, parsed |-> FALSE]

NoTally == [started |-> FALSE, errors |-> 0, events |-> 0]

CodecIdle ==
    /\ decode_state = WAIT_FOR_START_DELIMITER
    /\ payload_buffer = << >>
    /\ checksum_buffer = << >>
    /\ payload_index = 0
    /\ checksum_index = 0
    /\ decoded_message_event = FreshEvent
    /\ decode_ret = "SUCCESS"
    /\ wire = << >>
    /\ frame = [kind |-> "none", msg |-> MessageNone, start |-> WAIT_FOR_START_DELIMITER,
                after_error |-> FALSE]
    /\ io = NoCall
    /\ tally = NoTally

ParseIdle ==
    /\ parse_in = [payload |-> << >>, checksum |-> << >>, original |-> << >>,
                   original_checksum |-> << >>, flipped |-> "none"]
    /\ parse_out = [called |-> FALSE, ret |-> "SUCCESS", ev |-> FreshEvent]

Agents == {"P", "Q"}

Peer(a) == IF a = "P" THEN "Q" ELSE "P"

\* The record of the last AgentRun call: who ran, on which event, from which
\* statics, and the message returned; cheat holds the agents that entered the
\* end screen from the failed verification and were not reset since.
NoRun == [called |-> FALSE, who |-> "P", event |-> FreshEvent,
          before |-> AgentInit(AgentStatics), msg |-> MessageNone, cheat |-> {}]

\* Both agents after AgentInit(), nothing in flight.
NoNegotiation == [called |-> FALSE, secret |-> 0, other |-> 0, hash |-> 0,
                  verify |-> FALSE, flip |-> "TAILS", flipBack |-> "TAILS"]

NoFieldCall == [called |-> FALSE, op |-> "", row |-> 0, col |-> 0, dir |-> "", boatType |-> "",
                result |-> 0, before |-> FieldInit, ret |-> 0, guess |-> 0, outside |-> FALSE]

NoPlacing == [pc |-> "idle", i |-> 0, retried |-> FALSE, ret |-> ""]

LibIdle == neg = NoNegotiation /\ fields = FieldInit /\ fcall = NoFieldCall /\ place = NoPlacing

GameIdle ==
    /\ agent = [a \in Agents |-> AgentInit(AgentStatics)]
    /\ run = NoRun
    /\ chan = [a \in Agents |-> << >>]
    /\ confirm = [a \in Agents |-> 0]
    /\ rx_event = [a \in Agents |-> FreshEvent]
    /\ steps = 0

(***************************************************************************)
(* The codec under a byte stream: frames are put on the wire and fed to    *)
(* Message_Decode one byte per call.                                       *)
(***************************************************************************)
\* Parameter values the messages are built from: both ends of the 16-bit range.
MsgParams == {0, 65535}

Messages ==
    {Msg(t, a, 0, 0) : t \in {"MESSAGE_CHA", "MESSAGE_ACC", "MESSAGE_REV"}, a \in MsgParams}
    \cup {Msg("MESSAGE_SHO", a, b, 0) : a \in MsgParams, b \in MsgParams}
    \cup {Msg("MESSAGE_SHO", 2, 9, 0)}
    \cup {Msg("MESSAGE_RES", a, a, a) : a \in MsgParams}
    \cup {Msg("MESSAGE_RES", 5, 9, 3), Msg("MESSAGE_RES", 65535, 0, 10)}

\* "%02x": the checksum in lower-case digits.
Hex2Lower(b) ==
    [i \in 1..2 |-> IF Hex2Upper(b)[i] \in 65..90 THEN Hex2Upper(b)[i] + 32
                    ELSE Hex2Upper(b)[i]]

\* A frame around payload p whose checksum field is the two characters cs.
FrameWith(p, cs) == << 36 >> \o p \o << 42 >> \o cs \o << 13, 10 >>

\* Checksum values tried in place of the right one.
WrongChecksums == {0, 95, 255}

SHO_2_9 == Str(<< "S", "H", "O", ",", "2", ",", "9" >>)

\* The frames of the wire format's worked example: $SHO,2,9*5F\r\n and *00.
LiteralFrame == Str(<< "$", "S", "H", "O", ",", "2", ",", "9", "*", "5", "F", "CR", "LF" >>)

LiteralFrame00 == Str(<< "$", "S", "H", "O", ",", "2", ",", "9", "*", "0", "0", "CR", "LF" >>)

\* Byte sequences that are not frames.
MalformedFrames == <<
    Str(<< "$", "S", "H", "O", ",", "2", "$" >>),
    Str(<< "$", "S", "H", "O", "CR" >>),
    Str(<< "$" >>) \o SHO_2_9 \o Str(<< "*", "5", "G" >>),
    Str(<< "$" >>) \o SHO_2_9 \o Str(<< "*", "G" >>),
    Str(<< "$" >>) \o SHO_2_9 \o Str(<< "*", "5", "F", "LF" >>),
    Str(<< "$" >>) \o SHO_2_9 \o Str(<< "*", "5", "F", "CR", "CR" >>),
    Str(<< "$" >>) \o SHO_2_9 \o Str(<< "*", "5", "F", "5" >>),
    Str(<< "$", "X", "Y", "Z", ",", "1", "*", "4", "6", "CR", "LF" >>),
    Str(<< "$", "S", "H", "O", ",", "2", "*", "4", "A", "CR", "LF" >>),
    Str(<< "$", "*", "0", "0", "CR", "LF" >>),
    Str(<< "$", "S", "H", "O", ",", "2" >>),
    Str(<< "$" >>) \o SHO_2_9 \o Str(<< "*", "5" >>),
    Str(<< "$" >>) \o SHO_2_9 \o Str(<< "*", "5", "F", "CR" >>),
    Str(<< "A", "B", "CR", "LF" >>),
    << 36 >> \o [i \in 1..(MESSAGE_MAX_PAYLOAD_LEN + 1) |-> 65]
>>

\* What a test puts on the wire: [kind, msg, bytes].
Frame(kind, m, bytes) == [kind |-> kind, msg |-> m, bytes |-> bytes]

\* Message_Encode's output for each message.
ValidFrames == {Frame("valid", m, Message_Encode(m).str) : m \in Messages}

\* Frames that are well formed but for the value of the checksum.
BadChecksumFrames ==
    {Frame("badsum", m, FrameWith(EncodePayload(m), Hex2Upper(c))) :
        m \in Messages, c \in WrongChecksums}
    \ {Frame("badsum", m, Message_Encode(m).str) : m \in Messages}

\* Frames whose right checksum is written with a lower-case hex letter.
LowercaseFrames ==
    {Frame("lowercase", m,
           FrameWith(EncodePayload(m), Hex2Lower(Message_CalculateChecksum(EncodePayload(m))))) :
        m \in Messages}
    \ {Frame("lowercase", m, Message_Encode(m).str) : m \in Messages}

LiteralFrames ==
    {Frame("literal", Msg("MESSAGE_SHO", 2, 9, 0), LiteralFrame),
     Frame("literal00", Msg("MESSAGE_SHO", 2, 9, 0), LiteralFrame00)}

\* Put a byte sequence on the idle wire.  The caller hands Message_Decode a
\* fresh event struct for it.
Put(f) ==
    /\ wire = << >>
    /\ wire' = f.bytes
    /\ frame' = [kind |-> f.kind, msg |-> f.msg, start |-> decode_state,
                 after_error |-> decoded_message_event.type = "BB_EVENT_ERROR"]
    /\ io' = NoCall
    /\ decoded_message_event' = FreshEvent
    /\ UNCHANGED << decoderVars, decode_ret, tally, parseVars, gameVars, libc, libVars >>

\* Whatever bytes come: encoded messages, frames with a wrong or a lower-case
\* checksum, the frames of the worked example, byte sequences that are no
\* frame, and the nothing that Message_Encode leaves for MESSAGE_NONE.
SendBytes ==
    \E f \in ValidFrames \cup BadChecksumFrames \cup LowercaseFrames \cup LiteralFrames
                \cup {Frame("malformed", MessageNone, MalformedFrames[i]) :
                        i \in 1..Len(MalformedFrames)}
                \cup {Frame("empty", MessageNone, Message_Encode(MessageNone).str)} :
        Put(f)

\* The tally of the frame being decoded: it restarts when a start delimiter
\* is accepted, and counts the ERROR and message events reported since.
TallyAfter(begins, evtype) ==
    [started |-> begins \/ tally.started,
     errors  |-> (IF begins THEN 0 ELSE tally.errors)
                    + (IF evtype = "BB_EVENT_ERROR" THEN 1 ELSE 0),
     events  |-> (IF begins THEN 0 ELSE tally.events)
                    + (IF evtype \in MessageEvents THEN 1 ELSE 0)]

\* The effect of one call whose result is r, on the byte c.
DecodeApply(r, c) ==
    /\ decode_state' = r.d.decode_state
    /\ payload_buffer' = r.d.payload_buffer
    /\ payload_index' = r.d.payload_index
    /\ checksum_buffer' = r.d.checksum_buffer
    /\ checksum_index' = r.d.checksum_index
    /\ decoded_message_event' = r.ev
    /\ decode_ret' = r.ret
    /\ io' = [called |-> TRUE, char |-> c, from |-> decode_state,
              checksum_index |-> checksum_index, digits |-> Len(checksum_buffer),
              parsed |-> r.parsed]
    /\ tally' = TallyAfter(decode_state = WAIT_FOR_START_DELIMITER /\ c = 36, r.ev.type)

\* One call Message_Decode(Head(wire), &decoded_message_event).
DecodeByte ==
    /\ wire # << >>
    /\ DecodeApply(Message_Decode(Decoder, decoded_message_event, Head(wire), libc), Head(wire))
    /\ wire' = Tail(wire)
    /\ UNCHANGED << frame, parseVars, gameVars, libc, libVars >>

InitCodec == CodecIdle /\ LibIdle /\ ParseIdle /\ GameIdle /\ libc \in Libcs

NextCodec ==
    \/ SendBytes
    \/ DecodeByte

SpecCodec == InitCodec /\ [][NextCodec]_vars

(***************************************************************************)
(* Message_ParseMessage called directly, on a payload and a checksum       *)
(* string, as given or with one bit of one character flipped.              *)
(***************************************************************************)
\* Payloads in the exact form of a template.
StrictPayloads == {
    SHO_2_9,
    Str(<< "C", "H", "A", ",", "0" >>),
    Str(<< "A", "C", "C", ",", "6", "5", "5", "3", "5" >>),
    Str(<< "R", "E", "V", ",", "1", "2", "3", "4", "5" >>),
    Str(<< "R", "E", "S", ",", "5", ",", "9", ",", "3" >>) }

\* Payloads that are close to a template but not in its exact form.
LoosePayloads == {
    Str(<< "C", "H", "A", ",", "5", ",", "7" >>),
    Str(<< "S", "H", "O", ",", "2", ",", "9", "x" >>),
    Str(<< "R", "E", "S", ",", "1", ",", "2", ",", "3", ",", "4" >>),
    Str(<< "C", "H", "A", ",", " ", "5" >>),
    Str(<< "A", "C", "C", ",", "+", "5" >>),
    Str(<< "R", "E", "V", ",", "5", " " >>),
    Str(<< "X", "Y", "Z", ",", "1" >>),
    Str(<< "C", "H", "A", "X", ",", "5" >>),
    Str(<< " ", "C", "H", "A", ",", "5" >>),
    Str(<< "C", "H", "A" >>),
    Str(<< "C", "H", "A", "," >>),
    Str(<< "S", "H", "O", ",", "2" >>),
    Str(<< "S", "H", "O", ",", "2", "," >>),
    Str(<< "R", "E", "S", ",", "1", ",", "2" >>),
    << >> }

\* c with bit b flipped.
FlipBit(c, b) == BitXor(c, 2 ^ b)

\* s with bit b of its i-th character flipped.
FlipAt(s, i, b) == [s EXCEPT ![i] = FlipBit(@, b)]

\* One input of a direct call: the payload and checksum string handed to the
\* parser (C strings, so they end at their first NUL), and what they were
\* before any bit was flipped.
ParseInput(p, c, original, flipped) ==
    [payload |-> CStr(p), checksum |-> CStr(c), original |-> original,
     original_checksum |-> Hex2Upper(Message_CalculateChecksum(original)),
     flipped |-> flipped]

\* A payload with its matching checksum, in upper-case hex digits.
MatchingInputs ==
    { ParseInput(p, Hex2Upper(Message_CalculateChecksum(p)), p, "none") : p \in StrictPayloads \cup LoosePayloads }

\* The same with one bit of one payload character flipped.
FlippedPayloadInputs ==
    UNION { { ParseInput(FlipAt(p, ib[1], ib[2]), Hex2Upper(Message_CalculateChecksum(p)),
                         p, "payload") : ib \in (1..Len(p)) \X (0..7) } : p \in StrictPayloads \cup LoosePayloads }

\* The same with one bit of one checksum digit flipped.
FlippedChecksumInputs ==
    UNION { { ParseInput(p, FlipAt(Hex2Upper(Message_CalculateChecksum(p)), ib[1], ib[2]),
                         p, "checksum") : ib \in (1..2) \X (0..7) } : p \in StrictPayloads \cup LoosePayloads }

ParseInputs == MatchingInputs \cup FlippedPayloadInputs \cup FlippedChecksumInputs

\* The call Message_ParseMessage(payload, checksum, &ev) on a fresh event.
ParseCall ==
    /\ ~parse_out.called
    /\ parse_out' = [called |-> TRUE] @@
                     Message_ParseMessage(parse_in.payload, parse_in.checksum, FreshEvent, libc)
    /\ UNCHANGED << codecVars, parse_in, gameVars, libc, libVars >>

InitParse ==
    /\ CodecIdle
    /\ LibIdle
    /\ GameIdle
    /\ parse_in \in ParseInputs
    /\ parse_out = [called |-> FALSE, ret |-> "SUCCESS", ev |-> FreshEvent]
    /\ libc \in Libcs

NextParse == ParseCall

SpecParse == InitParse /\ [][NextParse]_vars

(***************************************************************************)
(* One agent under arbitrary events.                                       *)
(***************************************************************************)
\* Values rand() % 65536 may give.
Secrets == {0, 1, 3, 12345}

\* Values a parameter that the parser did not write may hold.
StaleParams == {0, 65535}

MaxEvents == 3

Event(t, a, b, c) == [type |-> t, param0 |-> a, param1 |-> b, param2 |-> c]

LocalEvents ==
    {Event(t, 0, 0, 0) : t \in {"BB_EVENT_RESET_BUTTON", "BB_EVENT_START_BUTTON",
                                "BB_EVENT_MESSAGE_SENT"}}

IgnoredEvents == {Event(t, 0, 0, 0) : t \in {"BB_EVENT_NO_EVENT", "BB_EVENT_ERROR"}}

ReceivedEvents ==
    {Event("BB_EVENT_CHA_RECEIVED", NegotiationHash(s), 0, 0) : s \in Secrets}
    \cup {Event("BB_EVENT_CHA_RECEIVED", 2, 0, 0)}
    \cup {Event("BB_EVENT_ACC_RECEIVED", s, 0, 0) : s \in Secrets}
    \cup UNION {{Event("BB_EVENT_REV_RECEIVED", s, p, 0) : p \in StaleParams \cup {s}} :
                    s \in Secrets}
    \cup {Event("BB_EVENT_SHO_RECEIVED", sq[1], sq[2], 0) :
            sq \in {<< 0, 0 >>, << 0, 5 >>, << 9, 9 >>, << 256, 5 >>}}
    \cup {Event("BB_EVENT_RES_RECEIVED", 0, 0, r) : r \in 0..6}
    \cup {Event("BB_EVENT_RES_RECEIVED", 3, 3, ShotResult.RESULT_HIT)}

\* What rand() and the Field AI may give to the call AgentRun(event).
Rand(ag, event) ==
    IF /\ ag.agentState = "AGENT_STATE_START"
       /\ event.type \in {"BB_EVENT_START_BUTTON", "BB_EVENT_CHA_RECEIVED"}
    THEN {[secret |-> s, placed |-> f, guess |-> NoGuess] :
            s \in Secrets, f \in FieldAIPlaceAllBoats(ag.ownField)}
    ELSE IF \/ ag.agentState = "AGENT_STATE_ACCEPTING" /\ event.type = "BB_EVENT_REV_RECEIVED"
            \/ ag.agentState = "AGENT_STATE_WAITING_TO_SEND"
                    /\ event.type = "BB_EVENT_MESSAGE_SENT"
    THEN {[secret |-> 0, placed |-> ag.ownField, guess |-> g] :
            g \in FieldAIDecideGuess(ag.oppField)}
    ELSE {[secret |-> 0, placed |-> ag.ownField, guess |-> NoGuess]}

CheatAfter(a, event, after) ==
    IF event.type = "BB_EVENT_RESET_BUTTON" THEN run.cheat \ {a}
    ELSE IF agent[a].agentState = "AGENT_STATE_ACCEPTING"
            /\ after.agentState = "AGENT_STATE_END_SCREEN"
    THEN run.cheat \cup {a}
    ELSE run.cheat

\* The call AgentRun(event) of agent a, r being what it returns.
RunApply(a, event, r) ==
    /\ agent' = [agent EXCEPT ![a] = r.agent]
    /\ run' = [called |-> TRUE, who |-> a, event |-> event, before |-> agent[a],
               msg |-> r.msg, cheat |-> CheatAfter(a, event, r.agent)]

Feed(event) ==
    /\ steps < MaxEvents
    /\ \E rnd \in Rand(agent["P"], event) :
            RunApply("P", event, AgentRun(agent["P"], event, rnd))
    /\ steps' = steps + 1
    /\ UNCHANGED << codecVars, parseVars, chan, confirm, rx_event, libc, libVars >>

AgentEvent == \E event \in LocalEvents \cup ReceivedEvents \cup IgnoredEvents : Feed(event)

InitAgent == CodecIdle /\ LibIdle /\ ParseIdle /\ GameIdle /\ libc = "strict"

NextAgent == AgentEvent

SpecAgent == InitAgent /\ [][NextAgent]_vars

(***************************************************************************)
(* Two agents joined by two in-order links.  A message an agent returns is *)
(* encoded and queued for its peer, and a MESSAGE_SENT confirmation is     *)
(* owed to the sender; a queued frame is decoded byte by byte into the     *)
(* receiver's event struct and the receiver runs on the event of the last  *)
(* byte.                                                                   *)
(***************************************************************************)
MaxTurns == 1

IdleDecoder == [decode_state    |-> WAIT_FOR_START_DELIMITER,
                payload_buffer  |-> << >>,
                payload_index   |-> 0,
                checksum_buffer |-> << >>,
                checksum_index  |-> 0]

RECURSIVE DecodeAll(_, _, _, _)
DecodeNext(r, rest, lib) == DecodeAll(r.d, r.ev, rest, lib)

\* Message_Decode over every byte of bytes in turn: the event it leaves.
DecodeAll(d, ev, bytes, lib) ==
    IF bytes = << >> THEN ev
    ELSE DecodeNext(Message_Decode(d, ev, Head(bytes), lib), Tail(bytes), lib)

\* The links after agent a has consumed `taken` frames and returned msg.
ChanAfter(a, taken, msg) ==
    [b \in Agents |->
        IF b = a THEN SubSeq(chan[a], taken + 1, Len(chan[a]))
        ELSE IF msg.type = "MESSAGE_NONE" THEN chan[b]
        ELSE Append(chan[b], Message_Encode(msg).str)]

GameApply(a, event, r, taken, confirmed) ==
    /\ RunApply(a, event, r)
    /\ chan' = ChanAfter(a, taken, r.msg)
    /\ confirm' = [confirm EXCEPT ![a] = @ - confirmed
                                        + (IF r.msg.type = "MESSAGE_NONE" THEN 0 ELSE 1)]

GameRun(a, event, taken, confirmed) ==
    \E rnd \in Rand(agent[a], event) :
        GameApply(a, event, AgentRun(agent[a], event, rnd), taken, confirmed)

\* The challenger's start button.
PressStart ==
    /\ \A a \in Agents : agent[a].agentState = "AGENT_STATE_START" /\ chan[a] = << >>
    /\ GameRun("P", Event("BB_EVENT_START_BUTTON", 0, 0, 0), 0, 0)
    /\ UNCHANGED << codecVars, parseVars, rx_event, steps, libc, libVars >>

DeliverEvent(a, event) ==
    /\ GameRun(a, event, 1, 0)
    /\ rx_event' = [rx_event EXCEPT ![a] = event]

\* The head frame of a's link reaches a.
Deliver(a) ==
    /\ chan[a] # << >>
    /\ DeliverEvent(a, DecodeAll(IdleDecoder, rx_event[a], Head(chan[a]), libc))
    /\ UNCHANGED << codecVars, parseVars, steps, libc, libVars >>

\* The transmitter of a reports a message sent.
Confirm(a) ==
    /\ confirm[a] > 0
    /\ agent[a].agentState = "AGENT_STATE_WAITING_TO_SEND" => agent[a].turn_counter < MaxTurns
    /\ GameRun(a, Event("BB_EVENT_MESSAGE_SENT", 0, 0, 0), 0, 1)
    /\ UNCHANGED << codecVars, parseVars, rx_event, steps, libc, libVars >>

InitGame ==
    /\ CodecIdle
    /\ LibIdle
    /\ ParseIdle
    /\ agent = [a \in Agents |-> AgentInit(AgentStatics)]
    /\ run = NoRun
    /\ chan = [a \in Agents |-> << >>]
    /\ confirm = [a \in Agents |-> 0]
    /\ rx_event \in [Agents -> {Event("BB_EVENT_NO_EVENT", v, v, v) : v \in StaleParams}]
    /\ steps = 0
    /\ libc \in Libcs

NextGame ==
    \/ PressStart
    \/ \E a \in Agents : Deliver(a)
    \/ \E a \in Agents : Confirm(a)

SpecGame == InitGame /\ [][NextGame]_vars


(***************************************************************************)
(* One agent under arbitrary events, late in a match.  The agent starts in *)
(* a state that AgentRun reaches from AgentInit() on a script of events:   *)
(* an attacker that has been told of three boats sunk, a defender with     *)
(* one boat square left, and an attacker that is both.                     *)
(***************************************************************************)
\* AgentRun(event) with the first of what rand() and the Field AI may give.
ReplayRun(ag, event) == AgentRun(ag, event, CHOOSE rnd \in Rand(ag, event) : TRUE).agent

\* The agent after the events of a script, which stops at the end screen.
RECURSIVE Replay(_, _)
Replay(ag, events) ==
    IF events = << >> \/ ag.agentState = "AGENT_STATE_END_SCREEN" THEN ag
    ELSE Replay(ReplayRun(ag, Head(events)), Tail(events))

\* The challenger after START_BUTTON and the ACC that leads it to state.
Opened(state) ==
    CHOOSE ag \in {Replay(AgentInit(AgentStatics),
                          << Event("BB_EVENT_START_BUTTON", 0, 0, 0),
                             Event("BB_EVENT_ACC_RECEIVED", b, 0, 0) >>) : b \in Secrets} :
        ag.agentState = state

\* Its own shot answered with result, the peer's shot off the grid, and the
\* confirmation that sends the next shot.
Exchange(result) ==
    << Event("BB_EVENT_RES_RECEIVED", 0, 0, result),
       Event("BB_EVENT_SHO_RECEIVED", 9, 9, 0),
       Event("BB_EVENT_MESSAGE_SENT", 0, 0, 0) >>

\* The attacker whose opponent has only the huge boat left.
NearVictory ==
    Replay(Opened("AGENT_STATE_WAITING_TO_SEND"),
           << Event("BB_EVENT_MESSAGE_SENT", 0, 0, 0) >>
           \o Exchange(ShotResult.RESULT_SMALL_BOAT_SUNK)
           \o Exchange(ShotResult.RESULT_MEDIUM_BOAT_SUNK)
           \o Exchange(ShotResult.RESULT_LARGE_BOAT_SUNK))

\* The peer's shots at every square of S in turn, each followed by the
\* agent's own shot and its miss.
RECURSIVE Volley(_)
Volley(S) ==
    IF S = {} THEN << >>
    ELSE << Event("BB_EVENT_SHO_RECEIVED", FirstSquare(S)[1], FirstSquare(S)[2], 0),
            Event("BB_EVENT_MESSAGE_SENT", 0, 0, 0),
            Event("BB_EVENT_RES_RECEIVED", 0, 0, ShotResult.RESULT_MISS) >>
         \o Volley(S \ {FirstSquare(S)})

BoatSquaresOf(f) ==
    {sq \in Squares : f.grid[sq] \in {SquareStatus.FIELD_SQUARE_SMALL_BOAT,
                                      SquareStatus.FIELD_SQUARE_MEDIUM_BOAT,
                                      SquareStatus.FIELD_SQUARE_LARGE_BOAT,
                                      SquareStatus.FIELD_SQUARE_HUGE_BOAT}}

\* The defender hit on every boat square but <<0, 0>>.
NearDefeat ==
    Replay(Opened("AGENT_STATE_DEFENDING"),
           Volley(BoatSquaresOf(Opened("AGENT_STATE_DEFENDING").ownField) \ {<< 0, 0 >>}))

\* The attacker whose opponent has only the huge boat left and whose own
\* fleet was hit on every boat square but <<0, 0>>.
NearBoth ==
    Replay(NearVictory,
           << Event("BB_EVENT_RES_RECEIVED", 0, 0, ShotResult.RESULT_MISS) >>
           \o Volley(BoatSquaresOf(NearVictory.ownField) \ {<< 0, 0 >>})
           \o << Event("BB_EVENT_SHO_RECEIVED", 9, 9, 0),
                 Event("BB_EVENT_MESSAGE_SENT", 0, 0, 0) >>)

MatchStarts == {NearVictory, NearDefeat, NearBoth}

InitMatch ==
    /\ CodecIdle
    /\ LibIdle
    /\ ParseIdle
    /\ agent \in {[a \in Agents |-> IF a = "P" THEN ag ELSE AgentInit(AgentStatics)] :
                    ag \in MatchStarts}
    /\ run = NoRun
    /\ chan = [a \in Agents |-> << >>]
    /\ confirm = [a \in Agents |-> 0]
    /\ rx_event = [a \in Agents |-> FreshEvent]
    /\ steps = 0
    /\ libc = "strict"

NextMatch == AgentEvent

SpecMatch == InitMatch /\ [][NextMatch]_vars

(***************************************************************************)
(* SpecNegotiation: NegotiationHash, NegotiationVerify and                 *)
(* NegotiateCoinFlip called once on arguments drawn from the 16-bit range, *)
(* as NegotiationTest.c calls them on a few.                               *)
(***************************************************************************)
NegotiationData == 0 .. 65535

\* The second argument paired with secret s: its commitment, the commitment
\* plus one, the commitment of the secret before it, its 16-bit complement
\* (0xAAAA with 0x5555) and 0, the pairs NegotiationTest.c draws from.
NegotiationOther(s, k) ==
    CASE k = 0 -> NegotiationHash(s)
      [] k = 1 -> NegotiationHash(s) + 1
      [] k = 2 -> NegotiationHash((s + 65535) % 65536)
      [] k = 3 -> 65535 - s
      [] OTHER -> 0

NegotiationCall ==
    /\ ~neg.called
    /\ neg' = [called   |-> TRUE,
               secret   |-> neg.secret,
               other    |-> neg.other,
               hash     |-> NegotiationHash(neg.secret),
               verify   |-> NegotiationVerify(neg.secret, neg.other),
               flip     |-> NegotiateCoinFlip(neg.secret, neg.other),
               flipBack |-> NegotiateCoinFlip(neg.other, neg.secret)]
    /\ UNCHANGED << codecVars, parseVars, gameVars, libc, fields, fcall, place >>

InitNegotiation ==
    /\ CodecIdle
    /\ ParseIdle
    /\ GameIdle
    /\ libc = "strict"
    /\ fields = FieldInit /\ fcall = NoFieldCall /\ place = NoPlacing
    /\ \E s \in NegotiationData, k \in 0 .. 4 :
            neg = [NoNegotiation EXCEPT !.secret = s, !.other = NegotiationOther(s, k)]

NextNegotiation == NegotiationCall

SpecNegotiation == InitNegotiation /\ [][NextNegotiation]_vars

(***************************************************************************)
(* SpecField: FieldAddBoat, FieldRegisterEnemyAttack and                   *)
(* FieldUpdateKnowledge called once on a pair of fields that calls of the  *)
(* same functions built, as FieldTest.c calls them.                        *)
(***************************************************************************)
RECURSIVE AddBoats(_, _)
AddBoats(f, boats) ==
    IF boats = << >> THEN f
    ELSE AddBoats(FieldAddBoat(f, Head(boats)[1], Head(boats)[2], Head(boats)[3], Head(boats)[4]).field,
                  Tail(boats))

\* The field of the example in FieldAddBoat's doc comment.
DocField ==
    AddBoats(FieldInit.ownField,
             << << 0, 0, "FIELD_DIR_EAST", "FIELD_BOAT_TYPE_SMALL" >>,
                << 1, 0, "FIELD_DIR_EAST", "FIELD_BOAT_TYPE_MEDIUM" >>,
                << 1, 0, "FIELD_DIR_EAST", "FIELD_BOAT_TYPE_HUGE" >>,
                << 0, 6, "FIELD_DIR_SOUTH", "FIELD_BOAT_TYPE_SMALL" >> >>)

\* f after attacks on the squares S, in row order, while a boat is left.
RECURSIVE Shelled(_, _)
Shelled(f, S) ==
    IF S = {} \/ FieldGetBoatStates(f) = 0 THEN f
    ELSE Shelled(FieldRegisterEnemyAttack(f, FirstSquare(S)[1], FirstSquare(S)[2]).field,
                 S \ {FirstSquare(S)})

\* The first square of each boat of f.
BoatHeads(f) ==
    {FirstSquare({sq \in Squares : f.grid[sq] = BoatSquareStatus(t)}) : t \in BoatTypes}

\* A fleet as placed, attacked on every other square, and attacked on all
\* squares but one of each boat.
FleetStarts(f) ==
    {f, Shelled(f, {sq \in Squares : (sq[1] + sq[2]) % 2 = 0}), Shelled(f, Squares \ BoatHeads(f))}

OwnStarts ==
    {FieldInit.ownField, DocField}
    \cup UNION {FleetStarts(f) : f \in FieldAIPlaceAllBoats(FieldInit.ownField)}

RECURSIVE Learned(_, _)
Learned(f, guesses) ==
    IF guesses = << >> THEN f
    ELSE Learned(FieldUpdateKnowledge(f, Head(guesses)).field, Tail(guesses))

\* f after a miss was recorded on every square of S.
RECURSIVE Swept(_, _)
Swept(f, S) ==
    IF S = {} \/ UnknownSquares(f) = {} THEN f
    ELSE Swept(FieldUpdateKnowledge(f, Guess(FirstSquare(S)[1], FirstSquare(S)[2])).field,
               S \ {FirstSquare(S)})

OppStarts ==
    {FieldInit.oppField,
     Swept(FieldInit.oppField, HuntSquares(FieldInit.oppField)),
     Swept(FieldInit.oppField, Squares \ {<< 5, 9 >>}),
     Swept(FieldInit.oppField, Squares),
     Learned(FieldInit.oppField,
             << [row |-> 0, col |-> 0, result |-> ShotResult.RESULT_MISS],
                [row |-> 0, col |-> 4, result |-> ShotResult.RESULT_HIT],
                [row |-> 1, col |-> 1, result |-> ShotResult.RESULT_SMALL_BOAT_SUNK] >>),
     Learned(FieldInit.oppField,
             << [row |-> 0, col |-> 0, result |-> ShotResult.RESULT_SMALL_BOAT_SUNK],
                [row |-> 0, col |-> 4, result |-> ShotResult.RESULT_MEDIUM_BOAT_SUNK],
                [row |-> 2, col |-> 2, result |-> ShotResult.RESULT_LARGE_BOAT_SUNK] >>)}

\* Rows and columns passed to the calls: the grid and what lies just outside.
CallRows == 0 .. FIELD_ROWS
CallCols == 0 .. FIELD_COLS

FieldCalled(op, row, col) ==
    [NoFieldCall EXCEPT !.called = TRUE, !.op = op, !.row = row, !.col = col, !.before = fields]

AddBoatCall ==
    /\ ~fcall.called
    /\ \E row \in CallRows, col \in CallCols, dir \in {"FIELD_DIR_SOUTH", "FIELD_DIR_EAST"},
          boatType \in BoatTypes \cup {"unknown"} :
          \E out \in FieldAddBoatOutcomes(fields.ownField, row, col, dir, boatType) :
            /\ fields' = [fields EXCEPT !.ownField = out.field]
            /\ fcall' = [FieldCalled("FieldAddBoat", row, col) EXCEPT
                            !.dir = dir, !.boatType = boatType,
                            !.ret = out.ret, !.outside = out.outside]
    /\ UNCHANGED << codecVars, parseVars, gameVars, libc, neg, place >>

RegisterEnemyAttackCall ==
    /\ ~fcall.called
    /\ \E row \in CallRows, col \in CallCols :
            /\ fields' = [fields EXCEPT
                            !.ownField = FieldRegisterEnemyAttack(fields.ownField, row, col).field]
            /\ fcall' = [FieldCalled("FieldRegisterEnemyAttack", row, col) EXCEPT
                            !.ret = FieldRegisterEnemyAttack(fields.ownField, row, col).ret,
                            !.guess = FieldRegisterEnemyAttack(fields.ownField, row, col).result]
    /\ UNCHANGED << codecVars, parseVars, gameVars, libc, neg, place >>

UpdateKnowledgeCall ==
    /\ ~fcall.called
    /\ \E row \in CallRows, col \in CallCols, result \in 0 .. 6 :
            /\ fields' = [fields EXCEPT
                            !.oppField = FieldUpdateKnowledge(fields.oppField,
                                            [row |-> row, col |-> col, result |-> result]).field]
            /\ fcall' = [FieldCalled("FieldUpdateKnowledge", row, col) EXCEPT
                            !.result = result,
                            !.ret = FieldUpdateKnowledge(fields.oppField,
                                            [row |-> row, col |-> col, result |-> result]).ret]
    /\ UNCHANGED << codecVars, parseVars, gameVars, libc, neg, place >>

DecideGuessCall ==
    /\ ~fcall.called
    /\ \E guess \in FieldAIDecideGuess(fields.oppField) :
            fcall' = [FieldCalled("FieldAIDecideGuess", guess.row, guess.col) EXCEPT
                            !.result = guess.result]
    /\ UNCHANGED << codecVars, parseVars, gameVars, libc, neg, place, fields >>

InitField ==
    /\ CodecIdle
    /\ ParseIdle
    /\ GameIdle
    /\ libc = "strict"
    /\ neg = NoNegotiation
    /\ fcall = NoFieldCall
    /\ place = NoPlacing
    /\ \E own \in OwnStarts, opp \in OppStarts : fields = [ownField |-> own, oppField |-> opp]

NextField ==
    AddBoatCall \/ RegisterEnemyAttackCall \/ UpdateKnowledgeCall \/ DecideGuessCall

SpecField == InitField /\ [][NextField]_vars

(***************************************************************************)
(* SpecPlace: FieldAIPlaceAllBoats on the field FieldInit leaves, one      *)
(* state per evaluation of its while condition.                            *)
(***************************************************************************)
\* boatTypes[] of FieldAIPlaceAllBoats, in its order.
PlaceOrder == << "FIELD_BOAT_TYPE_HUGE", "FIELD_BOAT_TYPE_LARGE",
                 "FIELD_BOAT_TYPE_MEDIUM", "FIELD_BOAT_TYPE_SMALL" >>

\* What rand() % FIELD_ROWS, rand() % FIELD_COLS and rand() % 2 may give.
PlaceRows == {0, 3, 5}
PlaceCols == {0, 5, 7}
PlaceDirs == {"FIELD_DIR_SOUTH", "FIELD_DIR_EAST"}

PlaceCalled ==
    /\ place.pc = "idle"
    /\ place' = [place EXCEPT !.pc = "loop", !.i = 1]
    /\ UNCHANGED << codecVars, parseVars, gameVars, libc, neg, fields, fcall >>

\* The while condition is false: FieldAddBoat returned SUCCESS.
PlaceAdded ==
    /\ place.pc = "loop" /\ place.i <= Len(PlaceOrder)
    /\ \E row \in PlaceRows, col \in PlaceCols, dir \in PlaceDirs :
            /\ FieldAddBoat(fields.ownField, row, col, dir, PlaceOrder[place.i]).ret = "SUCCESS"
            /\ fields' = [fields EXCEPT !.ownField =
                            FieldAddBoat(fields.ownField, row, col, dir, PlaceOrder[place.i]).field]
    /\ place' = [place EXCEPT !.i = @ + 1, !.retried = FALSE]
    /\ UNCHANGED << codecVars, parseVars, gameVars, libc, neg, fcall >>

\* The while condition is true: FieldAddBoat returned STANDARD_ERROR.
PlaceRetried ==
    /\ place.pc = "loop" /\ place.i <= Len(PlaceOrder)
    /\ \E row \in PlaceRows, col \in PlaceCols, dir \in PlaceDirs :
            FieldAddBoat(fields.ownField, row, col, dir, PlaceOrder[place.i]).ret = "STANDARD_ERROR"
    /\ place' = [place EXCEPT !.retried = TRUE]
    /\ UNCHANGED << codecVars, parseVars, gameVars, libc, neg, fields, fcall >>

PlaceReturned ==
    /\ place.pc = "loop" /\ place.i > Len(PlaceOrder)
    /\ place' = [place EXCEPT !.pc = "returned", !.ret = "SUCCESS"]
    /\ UNCHANGED << codecVars, parseVars, gameVars, libc, neg, fields, fcall >>

InitPlace ==
    /\ CodecIdle
    /\ ParseIdle
    /\ GameIdle
    /\ libc = "strict"
    /\ LibIdle

NextPlace == PlaceCalled \/ PlaceAdded \/ PlaceRetried \/ PlaceReturned

SpecPlace == InitPlace /\ [][NextPlace]_vars

\* rand() is fair: a loop that runs forever draws every placement again and
\* again, so a placement that fits is made in the end.
SpecPlaceFair ==
    SpecPlace /\ WF_vars(PlaceCalled) /\ WF_vars(PlaceAdded) /\ WF_vars(PlaceReturned)

(***************************************************************************)
(* SpecHandshake: the negotiation of two agents joined by the two links,   *)
(* for secrets of the challenger over the whole 16-bit range.  The frames  *)
(* pass through Message_Encode and Message_Decode; the run ends when both  *)
(* agents have left the negotiation.                                       *)
(***************************************************************************)
\* Values rand() % 65536 may give to the challenger: every SecretStride-th
\* value from 65535 down.
SecretStride == 3

ChallengerSecrets == {s \in NegotiationData : (65535 - s) % SecretStride = 0}

\* Values rand() % 65536 may give to the acceptor.
AcceptorSecrets == {40000}

\* The fleet FieldAIPlaceAllBoats leaves on its first draws.
PlacedFleet == CHOOSE f \in FieldAIPlaceAllBoats(FieldInit.ownField) : TRUE

NegotiationStates ==
    {"AGENT_STATE_START", "AGENT_STATE_CHALLENGING", "AGENT_STATE_ACCEPTING"}

HandshakeRand(ag, event) ==
    IF ag.agentState = "AGENT_STATE_START"
    THEN {[secret |-> b, placed |-> PlacedFleet, guess |-> NoGuess] : b \in AcceptorSecrets}
    ELSE Rand(ag, event)

\* The challenger's start button.
HandshakeStart ==
    /\ \A a \in Agents : agent[a].agentState = "AGENT_STATE_START" /\ chan[a] = << >>
    /\ \E s \in ChallengerSecrets :
        \E r \in {AgentRun(agent["P"], Event("BB_EVENT_START_BUTTON", 0, 0, 0),
                           [secret |-> s, placed |-> PlacedFleet, guess |-> NoGuess])} :
            GameApply("P", Event("BB_EVENT_START_BUTTON", 0, 0, 0), r, 0, 0)
    /\ UNCHANGED << codecVars, parseVars, rx_event, steps, libc, libVars >>

\* AgentRun(event) of a on the event decoded from the head frame of its link.
HandshakeEvent(a, event) ==
    /\ \E rnd \in HandshakeRand(agent[a], event) :
        \E r \in {AgentRun(agent[a], event, rnd)} : GameApply(a, event, r, 1, 0)
    /\ rx_event' = [rx_event EXCEPT ![a] = event]

\* The head frame of a's link reaches a, which is still negotiating.
HandshakeDeliver(a) ==
    /\ chan[a] # << >>
    /\ agent[a].agentState \in NegotiationStates
    /\ \E event \in {DecodeAll(IdleDecoder, rx_event[a], Head(chan[a]), libc)} :
            HandshakeEvent(a, event)
    /\ UNCHANGED << codecVars, parseVars, steps, libc, libVars >>

InitHandshake == CodecIdle /\ ParseIdle /\ GameIdle /\ libc = "strict" /\ LibIdle

NextHandshake == HandshakeStart \/ \E a \in Agents : HandshakeDeliver(a)

SpecHandshake == InitHandshake /\ [][NextHandshake]_vars
(***************************************************************************)
(* Properties of the codec.                                                *)
(***************************************************************************)
\* The event carries the parameters of message m.
SameParams(m, ev) ==
    /\ ev.param0 = m.param0
    /\ m.type \in {"MESSAGE_SHO", "MESSAGE_RES"} => ev.param1 = m.param1
    /\ m.type = "MESSAGE_RES" => ev.param2 = m.param2

\* The frame on the wire was put there with the decoder waiting for a start
\* delimiter, and at least one of its bytes has been decoded.
FedFromStart == frame.start = WAIT_FOR_START_DELIMITER /\ io.called

\* C1: the bytes of Message_Encode(m), fed one at a time to a decoder that
\* waits for a start delimiter, give NO_EVENT on every byte but the last and
\* on the last byte the event of m's type with m's parameters.
C1_RoundTrip ==
    (frame.kind = "valid" /\ FedFromStart) =>
        IF wire # << >>
        THEN decoded_message_event.type = "BB_EVENT_NO_EVENT" /\ decode_ret = "SUCCESS"
        ELSE /\ decoded_message_event.type = EventOf(frame.msg.type)
             /\ SameParams(frame.msg, decoded_message_event)
             /\ decode_ret = "SUCCESS"

C1_Witness ==
    /\ frame.kind = "valid" /\ FedFromStart /\ wire = << >>
    /\ frame.msg = Msg("MESSAGE_RES", 65535, 0, 10)
    /\ decoded_message_event =
          [type |-> "BB_EVENT_RES_RECEIVED", param0 |-> 65535, param1 |-> 0, param2 |-> 10]

\* C8: a frame whose checksum is right but written with a lower-case hex
\* letter is invalid: its last byte gives ERROR, never a message event.
C8_LowercaseRejected ==
    (frame.kind = "lowercase" /\ FedFromStart /\ wire = << >>) =>
        decoded_message_event.type = "BB_EVENT_ERROR"

\* C9: a call that yields ERROR leaves the decoder waiting for a start
\* delimiter; a frame gets one report (ERROR or message event), never two; a
\* start delimiter met while waiting begins a frame with empty buffers; a
\* valid frame fed after an ERROR decodes to its event; and the parser runs
\* only on the line feed after two checksum digits and a carriage return.
C9_SingleErrorAndResync ==
    /\ (io.called /\ decoded_message_event.type = "BB_EVENT_ERROR") =>
            /\ decode_state = WAIT_FOR_START_DELIMITER
            /\ decode_ret = "STANDARD_ERROR"
    /\ tally.errors + tally.events <= 1
    /\ (tally.started /\ decode_state = WAIT_FOR_START_DELIMITER) =>
            tally.errors + tally.events = 1
    /\ decode_state # WAIT_FOR_START_DELIMITER => tally.errors + tally.events = 0
    /\ (io.called /\ io.from = WAIT_FOR_START_DELIMITER /\ io.char = 36) =>
            /\ decode_state = RECORDING_PAYLOAD
            /\ payload_buffer = << >> /\ payload_index = 0
            /\ checksum_buffer = << >> /\ checksum_index = 0
    /\ (frame.kind = "valid" /\ frame.after_error /\ io.called /\ wire = << >>) =>
            /\ decoded_message_event.type = EventOf(frame.msg.type)
            /\ SameParams(frame.msg, decoded_message_event)
    /\ io.parsed =>
            /\ io.char = 10
            /\ io.from = RECORDING_CHECKSUM
            /\ io.digits = MESSAGE_CHECKSUM_LEN
            /\ io.checksum_index = MESSAGE_CHECKSUM_LEN + 1

C9_Witness ==
    /\ frame.kind = "valid" /\ frame.after_error /\ io.called /\ wire = << >>
    /\ io.parsed
    /\ decoded_message_event.type = EventOf(frame.msg.type)
    /\ tally = [started |-> TRUE, errors |-> 0, events |-> 1]

\* C10: a frame that is well formed but for the value of its checksum gives
\* NO_EVENT on every byte before the final line feed and ERROR on it; the
\* frame $SHO,2,9*5F\r\n gives SHO_RECEIVED with param0 = 2 and param1 = 9.
C10_BadChecksumAndLiteral ==
    /\ (frame.kind \in {"badsum", "literal00"} /\ FedFromStart) =>
            IF wire # << >>
            THEN decoded_message_event.type = "BB_EVENT_NO_EVENT"
            ELSE /\ decoded_message_event.type = "BB_EVENT_ERROR"
                 /\ decode_ret = "STANDARD_ERROR"
                 /\ io.char = 10
    /\ (frame.kind = "literal" /\ FedFromStart /\ wire = << >>) =>
            /\ decoded_message_event.type = "BB_EVENT_SHO_RECEIVED"
            /\ decoded_message_event.param0 = 2
            /\ decoded_message_event.param1 = 9

C10_Witness ==
    /\ frame.kind = "literal00" /\ FedFromStart /\ wire = << >>
    /\ io.parsed
    /\ decoded_message_event.type = "BB_EVENT_ERROR"

(***************************************************************************)
(* Properties of Message_ParseMessage.                                     *)
(***************************************************************************)
\* C6: with one bit of the payload or of a checksum digit flipped, the
\* parser returns STANDARD_ERROR and the event type is ERROR.
C6_AnyBitFlipRejected ==
    (parse_out.called /\ parse_in.flipped # "none") =>
        /\ parse_out.ret = "STANDARD_ERROR"
        /\ parse_out.ev.type = "BB_EVENT_ERROR"

\* C7: the parser yields a message event only for a payload that is exactly
\* a tag followed by exactly its number of decimal fields and nothing else.
C7_StrictParsing ==
    (parse_out.called /\ parse_in.flipped = "none" /\ parse_out.ev.type \in MessageEvents) =>
        parse_in.payload \in StrictPayloads

(***************************************************************************)
(* Properties of the agent.                                                *)
(***************************************************************************)
\* The last call was AgentRun(REV_RECEIVED) in the accepting state.
RevInAccepting ==
    /\ run.called
    /\ run.before.agentState = "AGENT_STATE_ACCEPTING"
    /\ run.event.type = "BB_EVENT_REV_RECEIVED"

\* C2: when the acceptor Q has run on the challenger P's REV, and P has not
\* moved since it sent it, exactly one of the two attacks: P waits to send and
\* Q defends, or P defends and Q attacks.
C2_OneAttacker ==
    (RevInAccepting /\ run.who = "Q" /\ confirm["P"] > 0) =>
        \/ /\ agent["P"].agentState = "AGENT_STATE_WAITING_TO_SEND"
           /\ agent["Q"].agentState = "AGENT_STATE_DEFENDING"
        \/ /\ agent["P"].agentState = "AGENT_STATE_DEFENDING"
           /\ agent["Q"].agentState = "AGENT_STATE_ATTACKING"

\* C3: in ACCEPTING, a REV_RECEIVED whose secret passes the verification
\* makes the agent emit SHO and go to ATTACKING if coinFlip(param0, B) is
\* TAILS and to DEFENDING if it is HEADS.
C3_AcceptorFlipsRevealedSecret ==
    (RevInAccepting /\ NegotiationVerify(run.event.param0, run.before.hashA)) =>
        /\ run.msg.type = "MESSAGE_SHO"
        /\ agent[run.who].agentState =
              IF NegotiateCoinFlip(run.event.param0, run.before.B) = "TAILS"
              THEN "AGENT_STATE_ATTACKING"
              ELSE "AGENT_STATE_DEFENDING"

\* C4: in ACCEPTING, a REV_RECEIVED whose secret does not hash to the stored
\* commitment moves the agent to END_SCREEN showing the cheat outcome and
\* emits no message.
C4_CheatEndsMatch ==
    (RevInAccepting /\ NegotiationHash(run.event.param0) # run.before.hashA) =>
        /\ agent[run.who].agentState = "AGENT_STATE_END_SCREEN"
        /\ agent[run.who].oled.screen = CheatBanner
        /\ run.msg = MessageNone

C4_Witness ==
    /\ RevInAccepting
    /\ NegotiationHash(run.event.param0) # run.before.hashA
    /\ run.before.hashA = NegotiationHash(12345)
    /\ agent[run.who].agentState = "AGENT_STATE_END_SCREEN"

\* C5: an agent that entered END_SCREEN through the cheat detection shows
\* the cheat outcome for as long as it is not reset.
C5_CheatOutcomePersists ==
    \A a \in run.cheat :
        /\ agent[a].agentState = "AGENT_STATE_END_SCREEN"
        /\ agent[a].oled.screen = CheatBanner

(***************************************************************************)
(* Properties of the decoder's buffers and of Message_Encode.              *)
(***************************************************************************)
\* The indices of payload_buffer that the call with result r writes from the
\* decoder state d: the byte stored and the NUL that follows it.
PayloadWritten(d, r) ==
    IF Len(r.d.payload_buffer) > Len(d.payload_buffer)
    THEN {d.payload_index, d.payload_index + 1}
    ELSE {}

\* The same for checksum_buffer.
ChecksumWritten(d, r) ==
    IF Len(r.d.checksum_buffer) > Len(d.checksum_buffer)
    THEN {d.checksum_index, d.checksum_index + 1}
    ELSE {}

\* A call on the head of the wire writes inside the two buffers, of
\* MESSAGE_MAX_PAYLOAD_LEN + 1 and MESSAGE_CHECKSUM_LEN + 1 chars.
WritesInside(d, r) ==
    /\ \A i \in PayloadWritten(d, r) : i \in 0..MESSAGE_MAX_PAYLOAD_LEN
    /\ \A i \in ChecksumWritten(d, r) : i \in 0..MESSAGE_CHECKSUM_LEN

\* C11 (as stated): payload_index stays in 0..75 and checksum_index in 0..3.
C11_IndexBelowPayloadLen ==
    /\ payload_index \in 0..(MESSAGE_MAX_PAYLOAD_LEN - 1)
    /\ checksum_index \in 0..(MESSAGE_CHECKSUM_LEN + 1)

\* C11 (amended): under any bytes payload_index stays in
\* 0..MESSAGE_MAX_PAYLOAD_LEN (76) and checksum_index in 0..3, every write to
\* payload_buffer is at an index <= 76 (the buffer has 77 chars) and every
\* write to checksum_buffer at an index <= 2, and each call consumes exactly
\* one byte and returns.
C11_DecoderBounded ==
    [][/\ payload_index' \in 0..MESSAGE_MAX_PAYLOAD_LEN
       /\ checksum_index' \in 0..(MESSAGE_CHECKSUM_LEN + 1)
       /\ Len(payload_buffer') = payload_index'
       /\ wire # << >> =>
            /\ WritesInside(Decoder, Message_Decode(Decoder, decoded_message_event,
                                                    Head(wire), libc))
            /\ wire' = Tail(wire)
            /\ io'.called /\ io'.char = Head(wire)
            /\ decode_ret' \in {"SUCCESS", "STANDARD_ERROR"}]_vars

\* The buffer is full, and the byte after it was refused without a write.
C11_Witness ==
    /\ io.called /\ io.from = RECORDING_PAYLOAD
    /\ payload_index = MESSAGE_MAX_PAYLOAD_LEN
    /\ Len(payload_buffer) = MESSAGE_MAX_PAYLOAD_LEN
    /\ decode_state = WAIT_FOR_START_DELIMITER
    /\ decoded_message_event.type = "BB_EVENT_ERROR"

\* e is $ payload * XX CR LF around the payload that message m prints, XX
\* being two upper-case hex digits whose value is the exclusive-or of the
\* payload's bytes, and e.len is the length of the frame.
WellFramed(m, e) ==
    /\ e.len = Len(e.str)
    /\ e.len <= MESSAGE_MAX_LEN
    /\ e.len = Len(EncodePayload(m)) + 6
    /\ e.str[1] = 36
    /\ SubSeq(e.str, 2, e.len - 5) = EncodePayload(m)
    /\ e.str[e.len - 4] = 42
    /\ \A i \in {e.len - 3, e.len - 2} : e.str[i] \in (48..57) \cup (65..70)
    /\ 16 * HexVal(e.str[e.len - 3]) + HexVal(e.str[e.len - 2])
            = XorBytes(SubSeq(e.str, 2, e.len - 5), 0)
    /\ e.str[e.len - 1] = 13
    /\ e.str[e.len] = 10

\* C12: Message_Encode returns 0 for MESSAGE_NONE, and for a CHA, ACC, REV,
\* SHO or RES message with 16-bit parameters writes $ payload * two
\* upper-case hex digits of the payload's exclusive-or, CR, LF, returning the
\* length of the frame, which is at most 82.
C12_EncodeFrames ==
    /\ frame.kind = "empty" =>
            /\ Message_Encode(frame.msg).len = 0
            /\ wire = << >>
    /\ frame.kind = "valid" =>
            /\ WellFramed(frame.msg, Message_Encode(frame.msg))
            /\ ~io.called => wire = Message_Encode(frame.msg).str

\* The frame of the worked example, with a letter in its checksum.
C12_Witness ==
    /\ frame.kind = "valid"
    /\ ~io.called
    /\ frame.msg = Msg("MESSAGE_SHO", 2, 9, 0)
    /\ wire = LiteralFrame

(***************************************************************************)
(* Properties of the agent's transitions.                                  *)
(***************************************************************************)
\* The last call was AgentRun(event of type t) in state s.
Ran(s, t) == run.called /\ run.before.agentState = s /\ run.event.type = t

\* f holds one boat of each type at full lives: what FieldAIPlaceAllBoats
\* leaves on an empty field.
FleetPlaced(f) ==
    /\ f.smallBoatLives = BoatSize.FIELD_BOAT_SIZE_SMALL
    /\ f.mediumBoatLives = BoatSize.FIELD_BOAT_SIZE_MEDIUM
    /\ f.largeBoatLives = BoatSize.FIELD_BOAT_SIZE_LARGE
    /\ f.hugeBoatLives = BoatSize.FIELD_BOAT_SIZE_HUGE
    /\ Cardinality(BoatSquaresOf(f)) = 18

\* C13: in START, START_BUTTON makes the agent draw a secret A, emit CHA
\* with the commitment of that A, place its fleet and go to CHALLENGING; a
\* CHA message is returned exactly by the call that enters CHALLENGING.
C13_StartButtonChallenges ==
    /\ Ran("AGENT_STATE_START", "BB_EVENT_START_BUTTON") =>
            /\ agent[run.who].agentState = "AGENT_STATE_CHALLENGING"
            /\ agent[run.who].A \in 0..65535
            /\ agent[run.who].hashA = NegotiationHash(agent[run.who].A)
            /\ run.msg = Msg("MESSAGE_CHA", NegotiationHash(agent[run.who].A), 0, 0)
            /\ FleetPlaced(agent[run.who].ownField)
    /\ run.called =>
            (run.msg.type = "MESSAGE_CHA"
                <=> /\ run.before.agentState # "AGENT_STATE_CHALLENGING"
                    /\ agent[run.who].agentState = "AGENT_STATE_CHALLENGING")

C13_Witness ==
    /\ Ran("AGENT_STATE_START", "BB_EVENT_START_BUTTON")
    /\ agent[run.who].A = 12345
    /\ run.msg = Msg("MESSAGE_CHA", 43182, 0, 0)
    /\ agent[run.who].agentState = "AGENT_STATE_CHALLENGING"

\* C14: in START, CHA_RECEIVED(c) makes the agent store c as the peer's
\* commitment, draw a secret B, emit ACC(B), place its fleet and go to
\* ACCEPTING; the commitment stays as stored while the agent is in
\* ACCEPTING, and it is the one the REV is verified against.
C14_ChallengeAccepted ==
    /\ Ran("AGENT_STATE_START", "BB_EVENT_CHA_RECEIVED") =>
            /\ agent[run.who].agentState = "AGENT_STATE_ACCEPTING"
            /\ agent[run.who].hashA = run.event.param0
            /\ agent[run.who].B \in 0..65535
            /\ run.msg = Msg("MESSAGE_ACC", agent[run.who].B, 0, 0)
            /\ FleetPlaced(agent[run.who].ownField)
    /\ (run.called /\ run.before.agentState = "AGENT_STATE_ACCEPTING"
            /\ run.event.type # "BB_EVENT_RESET_BUTTON") =>
            /\ agent[run.who].hashA = run.before.hashA
            /\ agent[run.who].B = run.before.B
    /\ RevInAccepting =>
            (agent[run.who].agentState = "AGENT_STATE_END_SCREEN"
                <=> NegotiationHash(run.event.param0) # run.before.hashA)

\* The commitment received, and then a REV that passes against it.
C14_Witness ==
    /\ RevInAccepting
    /\ run.before.hashA = 43182
    /\ run.event.param0 = 12345
    /\ agent[run.who].hashA = 43182
    /\ agent[run.who].agentState # "AGENT_STATE_END_SCREEN"

\* C15: in CHALLENGING, ACC_RECEIVED(b) makes the agent emit REV(A), A
\* being the secret whose commitment it holds and sent, and go to
\* WAITING_TO_SEND if coinFlip(A, b) is HEADS and to DEFENDING if it is
\* TAILS.
C15_ChallengerFlips ==
    Ran("AGENT_STATE_CHALLENGING", "BB_EVENT_ACC_RECEIVED") =>
        /\ run.msg = Msg("MESSAGE_REV", run.before.A, 0, 0)
        /\ run.before.hashA = NegotiationHash(run.before.A)
        /\ agent[run.who].A = run.before.A
        /\ agent[run.who].agentState =
                IF NegotiateCoinFlip(run.before.A, run.event.param0) = "HEADS"
                THEN "AGENT_STATE_WAITING_TO_SEND"
                ELSE "AGENT_STATE_DEFENDING"

C15_Witness ==
    /\ Ran("AGENT_STATE_CHALLENGING", "BB_EVENT_ACC_RECEIVED")
    /\ run.before.A = 3 /\ run.event.param0 = 1
    /\ run.msg = Msg("MESSAGE_REV", 3, 0, 0)
    /\ agent[run.who].agentState = "AGENT_STATE_WAITING_TO_SEND"

\* C16: in ATTACKING, RES_RECEIVED applies the result to the knowledge of
\* the opponent's field (at the square of the agent's own guess) and moves
\* to END_SCREEN showing the victory iff the opponent's boat states are 0
\* after the update, otherwise to DEFENDING; no message is emitted.
C16_ResultApplied ==
    Ran("AGENT_STATE_ATTACKING", "BB_EVENT_RES_RECEIVED") =>
        /\ run.msg = MessageNone
        /\ agent[run.who].own_guess = [run.before.own_guess EXCEPT !.result = run.event.param2]
        /\ agent[run.who].oppField =
                FieldUpdateKnowledge(run.before.oppField, agent[run.who].own_guess).field
        /\ agent[run.who].ownField = run.before.ownField
        /\ IF FieldGetBoatStates(agent[run.who].oppField) = 0
           THEN /\ agent[run.who].agentState = "AGENT_STATE_END_SCREEN"
                /\ agent[run.who].oled.screen = "VICTORY"
           ELSE agent[run.who].agentState = "AGENT_STATE_DEFENDING"

\* The fourth boat is reported sunk: victory.
C16_Witness ==
    /\ Ran("AGENT_STATE_ATTACKING", "BB_EVENT_RES_RECEIVED")
    /\ run.event.param2 = ShotResult.RESULT_HUGE_BOAT_SUNK
    /\ run.before.oppField.hugeBoatLives = BoatSize.FIELD_BOAT_SIZE_HUGE
    /\ FieldGetBoatStates(run.before.oppField) = BoatStatus.FIELD_BOAT_STATUS_HUGE
    /\ FieldGetBoatStates(agent[run.who].oppField) = 0
    /\ agent[run.who].agentState = "AGENT_STATE_END_SCREEN"

\* C17: in DEFENDING, SHO_RECEIVED(row, col) registers the attack on the
\* agent's own field and emits RES(row, col, result), result being what the
\* attack did (miss, hit or a boat sunk); the agent goes to END_SCREEN iff
\* its own boat states are 0 after the attack, otherwise to WAITING_TO_SEND.
C17_AttackAnswered ==
    Ran("AGENT_STATE_DEFENDING", "BB_EVENT_SHO_RECEIVED") =>
        /\ agent[run.who].ownField =
                FieldRegisterEnemyAttack(run.before.ownField, run.event.param0,
                                         run.event.param1).field
        /\ run.msg = Msg("MESSAGE_RES", run.event.param0, run.event.param1,
                         FieldRegisterEnemyAttack(run.before.ownField, run.event.param0,
                                                  run.event.param1).result)
        /\ agent[run.who].agentState =
                IF FieldGetBoatStates(agent[run.who].ownField) = 0
                THEN "AGENT_STATE_END_SCREEN"
                ELSE "AGENT_STATE_WAITING_TO_SEND"

\* C18: in WAITING_TO_SEND, MESSAGE_SENT makes the agent take the guess of
\* FieldAIDecideGuess, emit SHO with its row and column and go to ATTACKING;
\* every other event but the reset leaves the agent as it is and emits
\* nothing.
C18_NextShotSent ==
    /\ Ran("AGENT_STATE_WAITING_TO_SEND", "BB_EVENT_MESSAGE_SENT") =>
            /\ agent[run.who].own_guess \in FieldAIDecideGuess(run.before.oppField)
            /\ run.msg = Msg("MESSAGE_SHO", agent[run.who].own_guess.row,
                             agent[run.who].own_guess.col, 0)
            /\ agent[run.who].agentState = "AGENT_STATE_ATTACKING"
            /\ agent[run.who].oppField = run.before.oppField
            /\ agent[run.who].ownField = run.before.ownField
    /\ (run.called /\ run.before.agentState = "AGENT_STATE_WAITING_TO_SEND"
            /\ run.event.type \notin {"BB_EVENT_MESSAGE_SENT", "BB_EVENT_RESET_BUTTON"}) =>
            /\ agent[run.who] = run.before
            /\ run.msg = MessageNone

\* The first shot of the challenger that won the coin flip.
C18_Witness ==
    /\ Ran("AGENT_STATE_WAITING_TO_SEND", "BB_EVENT_MESSAGE_SENT")
    /\ run.msg = Msg("MESSAGE_SHO", 0, 0, 0)
    /\ agent[run.who].agentState = "AGENT_STATE_ATTACKING"
    /\ agent[run.who].turn_counter = 1

\* The agent as a process start and AgentInit() leave it.
Fresh == AgentInit(AgentStatics)

\* Two results of AgentRun agree on the message and on every static but
\* own_guess and turn_order, and on own_guess too in ATTACKING, the only
\* state that reads it before writing it.
SameRun(r1, r2) ==
    /\ r1.msg = r2.msg
    /\ [r1.agent EXCEPT !.own_guess = NoGuess, !.turn_order = "HEADS"]
            = [r2.agent EXCEPT !.own_guess = NoGuess, !.turn_order = "HEADS"]
    /\ r1.agent.agentState = "AGENT_STATE_ATTACKING" => r1.agent.own_guess = r2.agent.own_guess

ValidEvents(s) ==
    CASE s = "AGENT_STATE_START" -> {"BB_EVENT_START_BUTTON", "BB_EVENT_CHA_RECEIVED"}
      [] s = "AGENT_STATE_CHALLENGING" -> {"BB_EVENT_ACC_RECEIVED"}
      [] s = "AGENT_STATE_ACCEPTING" -> {"BB_EVENT_REV_RECEIVED"}
      [] s = "AGENT_STATE_ATTACKING" -> {"BB_EVENT_RES_RECEIVED"}
      [] s = "AGENT_STATE_DEFENDING" -> {"BB_EVENT_SHO_RECEIVED"}
      [] s = "AGENT_STATE_WAITING_TO_SEND" -> {"BB_EVENT_MESSAGE_SENT"}
      [] s = "AGENT_STATE_END_SCREEN" -> {}

\* C20: an event that the current state does not act on, ERROR in every
\* state among them, is ignored: AgentRun returns MESSAGE_NONE and leaves the
\* state, A, B, the commitment, the turn counter and both fields unchanged.
C20_InvalidEventIgnored ==
    (/\ run.called
     /\ run.event.type # "BB_EVENT_RESET_BUTTON"
     /\ run.event.type \notin ValidEvents(run.before.agentState)) =>
        /\ run.msg = MessageNone
        /\ agent[run.who].agentState = run.before.agentState
        /\ agent[run.who].A = run.before.A
        /\ agent[run.who].B = run.before.B
        /\ agent[run.who].hashA = run.before.hashA
        /\ agent[run.who].turn_counter = run.before.turn_counter
        /\ agent[run.who].own_guess = run.before.own_guess
        /\ agent[run.who].ownField = run.before.ownField
        /\ agent[run.who].oppField = run.before.oppField

\* An ERROR event while the agent waits for the answer to its shot.
C20_Witness ==
    /\ Ran("AGENT_STATE_ATTACKING", "BB_EVENT_ERROR")
    /\ run.before.B = 12345
    /\ run.msg = MessageNone
    /\ agent[run.who].agentState = "AGENT_STATE_ATTACKING"

(***************************************************************************)
(* Properties of the end of a match.                                       *)
(***************************************************************************)
\* C21: once the agent is in END_SCREEN, every event but the reset leaves it
\* in END_SCREEN and emits no message, and the reset takes it to START.
C21_EndScreenTerminal ==
    (run.called /\ run.before.agentState = "AGENT_STATE_END_SCREEN") =>
        /\ run.msg = MessageNone
        /\ agent[run.who].agentState =
                IF run.event.type = "BB_EVENT_RESET_BUTTON"
                THEN "AGENT_STATE_START"
                ELSE "AGENT_STATE_END_SCREEN"

\* The defeated agent, its outcome drawn, gets one more event.
C21_Witness ==
    /\ run.called /\ run.before.agentState = "AGENT_STATE_END_SCREEN"
    /\ run.before.endScreenDrawn
    /\ FieldGetBoatStates(run.before.ownField) = 0
    /\ run.event.type = "BB_EVENT_SHO_RECEIVED"
    /\ agent[run.who].agentState = "AGENT_STATE_END_SCREEN"

C23_NeverStalls ==
    (run.called /\ \E a \in Agents : agent[a].agentState # "AGENT_STATE_END_SCREEN") =>
        \E a \in Agents : chan[a] # << >> \/ confirm[a] > 0

(***************************************************************************)
(* Properties of the commitment scheme.                                    *)
(***************************************************************************)
\* C24: the commitment of 3 is 9, the commitment of 12345 is 43182, the
\* commitment is a function of the secret alone, and the commitment of every
\* secret in 0..65535 is below PUBLIC_KEY.
C24_CommitmentValues ==
    neg.called =>
        /\ neg.hash \in 0 .. (PUBLIC_KEY - 1)
        /\ neg.hash = NegotiationHash(neg.secret)
        /\ neg.secret = 3 => neg.hash = 9
        /\ neg.secret = 12345 => neg.hash = 43182

C24_Witness == neg.called /\ neg.secret = 12345 /\ neg.hash = 43182

\* C25: NegotiationVerify(s, c) is true exactly when the commitment of s is
\* c: true for the commitment of s, false for that commitment plus one.
C25_VerifyIffCommitment ==
    neg.called =>
        /\ neg.verify <=> (neg.hash = neg.other)
        /\ neg.other = neg.hash + 1 => ~neg.verify

C25_Witness ==
    /\ neg.called /\ neg.secret = 1000 /\ neg.other = 22420 /\ neg.verify

\* C26 as stated: for every s in 0..65534, s + 1 is not accepted for the
\* commitment of s.
C26_NoConsecutiveCollision ==
    (neg.called /\ neg.secret \in 1 .. 65535
        /\ neg.other = NegotiationHash(neg.secret - 1)) => ~neg.verify

\* C26: for every s in 0..65534 other than 24439, s + 1 is not accepted for
\* the commitment of s; 24439 and 24440 add up to PUBLIC_KEY and share their
\* commitment.
C26_OneConsecutiveCollision ==
    (neg.called /\ neg.secret \in 1 .. 65535
        /\ neg.other = NegotiationHash(neg.secret - 1)) =>
            (neg.verify <=> neg.secret = 24440)

C26_Witness ==
    /\ neg.called /\ neg.secret = 1001 /\ neg.other = NegotiationHash(1000)
    /\ ~neg.verify

\* Bit i of n.
BitOf(n, i) == (n \div (2 ^ i)) % 2

\* C27: NegotiateCoinFlip(A, B) is HEADS iff A and B differ in an odd number
\* of their 16 bits, and TAILS otherwise; it is the same with the arguments
\* exchanged; (0, 0) gives TAILS, (1, 0) HEADS and (0xAAAA, 0x5555) TAILS.
C27_CoinFlipParity ==
    neg.called =>
        /\ neg.flip \in {"HEADS", "TAILS"}
        /\ neg.flip = "HEADS" <=>
              Cardinality({i \in 0 .. 15 : BitOf(neg.secret, i) # BitOf(neg.other, i)}) % 2 = 1
        /\ neg.flipBack = neg.flip
        /\ (neg.secret = 0 /\ neg.other = 0) => neg.flip = "TAILS"
        /\ (neg.secret = 1 /\ neg.other = 0) => neg.flip = "HEADS"
        /\ (neg.secret = 43690 /\ neg.other = 21845) => neg.flip = "TAILS"

C27_Witness ==
    /\ neg.called /\ neg.secret = 1 /\ neg.other = 0
    /\ neg.flip = "HEADS" /\ neg.flipBack = "HEADS"

(***************************************************************************)
(* Properties of the Field functions.                                      *)
(***************************************************************************)
AddBoatRan == fcall.called /\ fcall.op = "FieldAddBoat"

\* The squares the boat of the call would occupy.
CallSquares ==
    IF fcall.boatType \in BoatTypes
    THEN BoatSquares(fcall.row, fcall.col, fcall.dir, BoatLength(fcall.boatType))
    ELSE {}

\* The boat of the call lies inside the grid on EMPTY squares.
BoatFits ==
    /\ fcall.boatType \in BoatTypes
    /\ CallSquares \subseteq Squares
    /\ \A sq \in CallSquares :
            fcall.before.ownField.grid[sq] = SquareStatus.FIELD_SQUARE_EMPTY

LivesOf(f) == << f.smallBoatLives, f.mediumBoatLives, f.largeBoatLives, f.hugeBoatLives >>

TypeIndex(boatType) ==
    CASE boatType = "FIELD_BOAT_TYPE_SMALL" -> 1
      [] boatType = "FIELD_BOAT_TYPE_MEDIUM" -> 2
      [] boatType = "FIELD_BOAT_TYPE_LARGE" -> 3
      [] boatType = "FIELD_BOAT_TYPE_HUGE" -> 4

\* C28: FieldAddBoat returns SUCCESS iff every square of the boat is inside
\* the grid and EMPTY; on SUCCESS exactly those squares take the boat's
\* status and the lives of its type grow by its length; on STANDARD_ERROR
\* the grid and the lives are as before; and no square outside the grid is
\* read or written.
C28_AddBoatChecked ==
    AddBoatRan =>
        /\ fcall.ret = "SUCCESS" <=> BoatFits
        /\ ~fcall.outside
        /\ fcall.ret = "SUCCESS" =>
            /\ \A sq \in Squares :
                    fields.ownField.grid[sq] =
                        IF sq \in CallSquares THEN TypeIndex(fcall.boatType)
                        ELSE fcall.before.ownField.grid[sq]
            /\ \A i \in 1 .. 4 :
                    LivesOf(fields.ownField)[i] =
                        LivesOf(fcall.before.ownField)[i]
                        + (IF i = TypeIndex(fcall.boatType) THEN Cardinality(CallSquares) ELSE 0)
        /\ fcall.ret = "STANDARD_ERROR" => fields = fcall.before

AttackRan == fcall.called /\ fcall.op = "FieldRegisterEnemyAttack"

\* The status the attacked square had, FIELD_SQUARE_INVALID outside the grid.
AttackedBefore ==
    IF << fcall.row, fcall.col >> \in Squares
    THEN fcall.before.ownField.grid[<< fcall.row, fcall.col >>]
    ELSE SquareStatus.FIELD_SQUARE_INVALID

\* The field before the call with the attacked square set to status and the
\* lives of boat i, if any, one less.
AttackedField(status, i) ==
    [grid |-> [sq \in Squares |-> IF sq = << fcall.row, fcall.col >> THEN status
                                  ELSE fcall.before.ownField.grid[sq]],
     smallBoatLives  |-> fcall.before.ownField.smallBoatLives - (IF i = 1 THEN 1 ELSE 0),
     mediumBoatLives |-> fcall.before.ownField.mediumBoatLives - (IF i = 2 THEN 1 ELSE 0),
     largeBoatLives  |-> fcall.before.ownField.largeBoatLives - (IF i = 3 THEN 1 ELSE 0),
     hugeBoatLives   |-> fcall.before.ownField.hugeBoatLives - (IF i = 4 THEN 1 ELSE 0)]

\* C29: FieldRegisterEnemyAttack returns the status the square had; on a
\* boat square the square becomes HIT, the boat's lives drop by one and the
\* result is the boat's SUNK result iff they reached 0, else HIT; on an EMPTY
\* square the square becomes MISS and the result is MISS; outside the grid it
\* returns FIELD_SQUARE_INVALID, reports MISS and changes nothing; on a square
\* attacked before it reports MISS and changes nothing.
C29_AttackRegistered ==
    AttackRan =>
        /\ fcall.ret = AttackedBefore
        /\ fields.oppField = fcall.before.oppField
        /\ AttackedBefore \in 1 .. 4 =>
            /\ fields.ownField = AttackedField(SquareStatus.FIELD_SQUARE_HIT, AttackedBefore)
            /\ fcall.guess = IF LivesOf(fields.ownField)[AttackedBefore] = 0
                             THEN AttackedBefore + 1
                             ELSE ShotResult.RESULT_HIT
        /\ AttackedBefore = SquareStatus.FIELD_SQUARE_EMPTY =>
            /\ fields.ownField = AttackedField(SquareStatus.FIELD_SQUARE_MISS, 0)
            /\ fcall.guess = ShotResult.RESULT_MISS
        /\ AttackedBefore \in {SquareStatus.FIELD_SQUARE_INVALID, SquareStatus.FIELD_SQUARE_HIT,
                               SquareStatus.FIELD_SQUARE_MISS} =>
            /\ fields = fcall.before
            /\ fcall.guess = ShotResult.RESULT_MISS

\* The last square of the small boat is attacked: the boat is sunk.
C29_Witness ==
    /\ AttackRan
    /\ fcall.ret = SquareStatus.FIELD_SQUARE_SMALL_BOAT
    /\ fcall.before.ownField.smallBoatLives = 1
    /\ fields.ownField.smallBoatLives = 0
    /\ fcall.guess = ShotResult.RESULT_SMALL_BOAT_SUNK

KnowledgeRan == fcall.called /\ fcall.op = "FieldUpdateKnowledge"

\* C30: FieldUpdateKnowledge returns the guessed square's previous status
\* and sets the square to FIELD_SQUARE_HIT for RESULT_HIT and every SUNK
\* result, and to FIELD_SQUARE_EMPTY for RESULT_MISS.
C30_KnowledgeRecorded ==
    (KnowledgeRan /\ << fcall.row, fcall.col >> \in Squares) =>
        /\ fcall.ret = fcall.before.oppField.grid[<< fcall.row, fcall.col >>]
        /\ fcall.result \in 1 .. 5 =>
            fields.oppField.grid[<< fcall.row, fcall.col >>] = SquareStatus.FIELD_SQUARE_HIT
        /\ fcall.result = ShotResult.RESULT_MISS =>
            fields.oppField.grid[<< fcall.row, fcall.col >>] = SquareStatus.FIELD_SQUARE_EMPTY

\* The bitmask of the boat types of f with lives left, bit by bit.
AliveMask(f) ==
    (IF f.smallBoatLives > 0 THEN 1 ELSE 0) + (IF f.mediumBoatLives > 0 THEN 2 ELSE 0)
    + (IF f.largeBoatLives > 0 THEN 4 ELSE 0) + (IF f.hugeBoatLives > 0 THEN 8 ELSE 0)

\* After the call the lives of boat type i are 0 if the result was that
\* type's SUNK result and what they were otherwise.
LivesFollowResult ==
    \A i \in 1 .. 4 :
        LivesOf(fields.oppField)[i] =
            IF fcall.result = i + 1 THEN 0 ELSE LivesOf(fcall.before.oppField)[i]

\* C31 as stated: FieldUpdateKnowledge sets the lives of a boat type to 0
\* exactly when the result is that type's SUNK result, whatever the guess.
C31_SunkClearsLives == KnowledgeRan => LivesFollowResult

\* C31: for a guess inside the grid FieldUpdateKnowledge sets the lives of a
\* boat type to 0 exactly when the result is that type's SUNK result and
\* leaves all lives alone for RESULT_HIT and RESULT_MISS; for a guess outside
\* the grid it returns FIELD_SQUARE_INVALID and changes nothing.  The alive
\* bitmask has bit i set iff type i has lives left, and a bit is cleared
\* only by the call that applies that type's SUNK result.
C31_SunkClearsLivesInGrid ==
    KnowledgeRan =>
        /\ << fcall.row, fcall.col >> \in Squares => LivesFollowResult
        /\ << fcall.row, fcall.col >> \notin Squares =>
                fields = fcall.before /\ fcall.ret = SquareStatus.FIELD_SQUARE_INVALID
        /\ FieldGetBoatStates(fields.oppField) = AliveMask(fields.oppField)
        /\ \A i \in 1 .. 4 :
                (LivesOf(fcall.before.oppField)[i] > 0 /\ LivesOf(fields.oppField)[i] = 0)
                    => fcall.result = i + 1

\* The last boat type alive is reported sunk: the bitmask reaches 0.
C31_Witness ==
    /\ KnowledgeRan
    /\ << fcall.row, fcall.col >> \in Squares
    /\ fcall.result = ShotResult.RESULT_HUGE_BOAT_SUNK
    /\ FieldGetBoatStates(fcall.before.oppField) = BoatStatus.FIELD_BOAT_STATUS_HUGE
    /\ FieldGetBoatStates(fields.oppField) = 0

\* The squares of f that hold the status of boatType.
SquaresOf(f, boatType) == {sq \in Squares : f.grid[sq] = BoatSquareStatus(boatType)}

\* S is one boat of the given length: a run of squares in one row or column.
OneBoat(S, length) ==
    \E sq \in Squares, dir \in PlaceDirs : S = BoatSquares(sq[1], sq[2], dir, length)

\* When FieldAIPlaceAllBoats has returned it has returned SUCCESS, each boat
\* type is on the grid exactly once as a run of its length, no square holds
\* anything else, and the four lives equal the boat sizes.
PlacedOnReturn ==
    place.pc = "returned" =>
        /\ place.ret = "SUCCESS"
        /\ \A t \in BoatTypes : OneBoat(SquaresOf(fields.ownField, t), BoatLength(t))
        /\ LivesOf(fields.ownField) = << 3, 4, 5, 6 >>
        /\ Cardinality({sq \in Squares : fields.ownField.grid[sq] # SquareStatus.FIELD_SQUARE_EMPTY})
                = 3 + 4 + 5 + 6

\* C32: FieldAIPlaceAllBoats, called on the field FieldInit leaves, returns
\* under fair random draws, with SUCCESS, one boat of each type inside the
\* grid, none overlapping, and lives equal to the boat sizes.
C32_PlacingTerminates == <>(place.pc = "returned" /\ PlacedOnReturn)

\* The function has returned with the four boats on the grid.
C32_Witness ==
    /\ place.pc = "returned" /\ place.ret = "SUCCESS"
    /\ LivesOf(fields.ownField) = << 3, 4, 5, 6 >>
    /\ \A t \in BoatTypes : Cardinality(SquaresOf(fields.ownField, t)) = BoatLength(t)

DecideRan == fcall.called /\ fcall.op = "FieldAIDecideGuess"

\* C33: when the opponent field has an UNKNOWN square, FieldAIDecideGuess
\* returns coordinates inside the grid of a square that is UNKNOWN.
C33_GuessIsUnknown ==
    (DecideRan /\ \E sq \in Squares :
                    fields.oppField.grid[sq] = SquareStatus.FIELD_SQUARE_UNKNOWN) =>
        /\ fcall.row \in 0 .. (FIELD_ROWS - 1)
        /\ fcall.col \in 0 .. (FIELD_COLS - 1)
        /\ fields.oppField.grid[<< fcall.row, fcall.col >>] = SquareStatus.FIELD_SQUARE_UNKNOWN

\* Every square of the hunt pattern is known: the guess is the first UNKNOWN
\* square, one the pattern skips.
C33_Witness ==
    /\ DecideRan
    /\ fields.oppField.grid[<< 0, 0 >>] = SquareStatus.FIELD_SQUARE_MISS
    /\ fcall.row = 0 /\ fcall.col = 1
    /\ fields.oppField.grid[<< 0, 1 >>] = SquareStatus.FIELD_SQUARE_UNKNOWN

(***************************************************************************)
(* Properties of the decoder's payload and checksum phases.                *)
(***************************************************************************)
\* The call ends in an ERROR event with the decoder waiting for a start
\* delimiter.
StepError ==
    /\ decoded_message_event'.type = "BB_EVENT_ERROR"
    /\ decode_ret' = "STANDARD_ERROR"
    /\ decode_state' = WAIT_FOR_START_DELIMITER

\* The call ends in NO_EVENT.
StepNoEvent ==
    /\ decoded_message_event'.type = "BB_EVENT_NO_EVENT"
    /\ decode_ret' = "SUCCESS"

\* The call on the head of the wire while a payload is recorded, the payload
\* being full at limit bytes.
PayloadStep(limit) ==
    (decode_state = RECORDING_PAYLOAD /\ wire # << >>) =>
        IF Head(wire) = 42
        THEN /\ decode_state' = RECORDING_CHECKSUM
             /\ StepNoEvent
             /\ payload_buffer' = payload_buffer
        ELSE IF Head(wire) \in {13, 36}
        THEN StepError
        ELSE IF payload_index >= limit
        THEN StepError
        ELSE /\ decode_state' = RECORDING_PAYLOAD
             /\ StepNoEvent
             /\ payload_buffer' = Append(payload_buffer, Head(wire))
             /\ payload_index' = payload_index + 1

\* C34 as stated: while recording a payload Message_Decode moves to the
\* checksum phase on '*', ends in ERROR on a carriage return, on a '$' and on
\* a byte that would make the payload longer than 75 bytes, and otherwise
\* appends the byte with NO_EVENT.
C34_PayloadUpTo75 == [][PayloadStep(75)]_vars

\* C34: the same with the payload full at MESSAGE_MAX_PAYLOAD_LEN = 76
\* bytes: the byte that would make it longer than 76 bytes ends in ERROR.
C34_PayloadUpTo76 == [][PayloadStep(MESSAGE_MAX_PAYLOAD_LEN)]_vars

\* The 76th payload byte was appended.
C34_Witness ==
    /\ io.called /\ io.from = RECORDING_PAYLOAD
    /\ decode_state = RECORDING_PAYLOAD
    /\ payload_index = MESSAGE_MAX_PAYLOAD_LEN
    /\ decoded_message_event.type = "BB_EVENT_NO_EVENT"

\* The characters 0-9, A-F and a-f.
HexDigitChars == (48 .. 57) \cup (65 .. 70) \cup (97 .. 102)

\* C35: in the checksum phase Message_Decode takes two hexadecimal digits,
\* then a carriage return, then a line feed; any other byte at one of these
\* four positions ends in ERROR with the decoder waiting for a start
\* delimiter; on the line feed the parser runs and the decoder waits for a
\* start delimiter whether the parser succeeded or not.
C35_ChecksumPhase ==
    [][(decode_state = RECORDING_CHECKSUM /\ wire # << >>) =>
        /\ checksum_index \in 0 .. 3
        /\ (checksum_index < 2 /\ Head(wire) \in HexDigitChars) =>
                /\ decode_state' = RECORDING_CHECKSUM
                /\ StepNoEvent
                /\ checksum_buffer' = Append(checksum_buffer, Head(wire))
                /\ checksum_index' = checksum_index + 1
        /\ (checksum_index < 2 /\ Head(wire) \notin HexDigitChars) => StepError
        /\ (checksum_index = 2 /\ Head(wire) = 13) =>
                /\ decode_state' = RECORDING_CHECKSUM
                /\ StepNoEvent
                /\ checksum_index' = 3
        /\ (checksum_index = 2 /\ Head(wire) # 13) => StepError
        /\ (checksum_index = 3 /\ Head(wire) = 10) =>
                /\ io'.parsed
                /\ decode_state' = WAIT_FOR_START_DELIMITER
                /\ decoded_message_event'.type \in MessageEvents \cup {"BB_EVENT_ERROR"}
                /\ decode_ret' = "STANDARD_ERROR"
                        <=> decoded_message_event'.type = "BB_EVENT_ERROR"
        /\ (checksum_index = 3 /\ Head(wire) # 10) => StepError /\ ~io'.parsed]_vars

\* The parser failed on the line feed of a frame with a wrong checksum, and
\* the decoder is waiting for a start delimiter.
C35_Witness ==
    /\ frame.kind = "badsum" /\ wire = << >>
    /\ io.called /\ io.from = RECORDING_CHECKSUM /\ io.char = 10 /\ io.parsed
    /\ io.checksum_index = 3
    /\ decoded_message_event.type = "BB_EVENT_ERROR"
    /\ decode_state = WAIT_FOR_START_DELIMITER

(***************************************************************************)
(* Properties of the shot exchange.                                        *)
(***************************************************************************)
\* The status a square that held prevStatus has after a result was applied
\* to it: a value that is no shot result leaves it alone.
StatusOfResult(prevStatus, result) ==
    IF result = ShotResult.RESULT_MISS THEN SquareStatus.FIELD_SQUARE_MISS
    ELSE IF result \in ShotResult.RESULT_HIT .. ShotResult.RESULT_HUGE_BOAT_SUNK THEN SquareStatus.FIELD_SQUARE_HIT
    ELSE prevStatus

\* The call AgentRun(RES_RECEIVED) of an agent in ATTACKING, guess being its
\* own_guess before the call: only the square of guess may change, it takes
\* the status of the message's result, and the agent is left as a RES
\* message naming the square of guess would leave it.
ResAppliedAt(before, after, event, guess) ==
    /\ \A sq \in Squares \ {<< guess.row, guess.col >>} :
            after.oppField.grid[sq] = before.oppField.grid[sq]
    /\ << guess.row, guess.col >> \in Squares =>
            after.oppField.grid[<< guess.row, guess.col >>] =
                StatusOfResult(before.oppField.grid[<< guess.row, guess.col >>], event.param2)
    /\ after.own_guess = [guess EXCEPT !.result = event.param2]
    /\ after = RunAttacking(before, [event EXCEPT !.param0 = guess.row,
                                                  !.param1 = guess.col]).agent

\* C36: an agent enters ATTACKING only in a call that emits SHO with the
\* row and column of own_guess, and keeps own_guess while it stays there; in
\* ATTACKING, RES_RECEIVED(row, col, result) updates the opponent-field
\* square of own_guess with the result of the message, whatever the row and
\* column of the message are.
C36_ResultAtOwnGuess ==
    [][steps' = steps + 1 =>
        /\ agent[run'.who].agentState # "AGENT_STATE_ATTACKING"
                /\ agent'[run'.who].agentState = "AGENT_STATE_ATTACKING"
            => run'.msg = Msg("MESSAGE_SHO", agent'[run'.who].own_guess.row,
                              agent'[run'.who].own_guess.col, 0)
        /\ agent[run'.who].agentState = "AGENT_STATE_ATTACKING"
                /\ agent'[run'.who].agentState = "AGENT_STATE_ATTACKING"
            => agent'[run'.who].own_guess = agent[run'.who].own_guess
                    /\ run'.msg = MessageNone
        /\ agent[run'.who].agentState = "AGENT_STATE_ATTACKING"
                /\ run'.event.type = "BB_EVENT_RES_RECEIVED"
            => ResAppliedAt(agent[run'.who], agent'[run'.who], run'.event,
                            agent[run'.who].own_guess)]_vars

\* A RES message naming <<3, 3>> was applied to the agent's guess <<0, 0>>.
C36_Witness ==
    /\ Ran("AGENT_STATE_ATTACKING", "BB_EVENT_RES_RECEIVED")
    /\ run.event.param0 = 3 /\ run.event.param1 = 3
    /\ run.event.param2 = ShotResult.RESULT_HIT
    /\ run.before.own_guess.row = 0 /\ run.before.own_guess.col = 0
    /\ agent[run.who].oppField.grid[<< 0, 0 >>] = SquareStatus.FIELD_SQUARE_HIT
    /\ agent[run.who].oppField.grid[<< 3, 3 >>] = SquareStatus.FIELD_SQUARE_UNKNOWN

\* C37: in a match of two agents, after the attacker has processed the
\* RES that answers its shot, the boat states it knows of the opponent's
\* field equal the boat states of the defender's own field.
C37_KnowledgeAgrees ==
    Ran("AGENT_STATE_ATTACKING", "BB_EVENT_RES_RECEIVED") =>
        \A d \in Agents \ {run.who} :
            FieldGetBoatStates(agent[run.who].oppField) = FieldGetBoatStates(agent[d].ownField)

(***************************************************************************)
(* Properties of the fields.                                               *)
(***************************************************************************)
\* C38: on an own field that only FieldInit, FieldAddBoat and
\* FieldRegisterEnemyAttack have written, the lives of each boat type equal
\* the number of grid squares that hold the type's status, so the type's
\* bit of the boat states is clear iff none of its squares is left.
C38_LivesCountSquares ==
    \A t \in BoatTypes :
        /\ LivesOf(fields.ownField)[TypeIndex(t)] = Cardinality(SquaresOf(fields.ownField, t))
        /\ (FieldGetBoatStates(fields.ownField) \div (2 ^ (TypeIndex(t) - 1))) % 2 = 0
                <=> SquaresOf(fields.ownField, t) = {}

(***************************************************************************)
(* Properties of the end of a match.                                       *)
(***************************************************************************)
\* C39: an agent that only AgentInit and AgentRun have written is never in
\* END_SCREEN with its own boat states and the opponent's both 0, and the
\* draw is never on the screen.
C39_NeverDraw ==
    \A a \in Agents :
        /\ agent[a].agentState = "AGENT_STATE_END_SCREEN" =>
                \/ FieldGetBoatStates(agent[a].ownField) # 0
                \/ FieldGetBoatStates(agent[a].oppField) # 0
        /\ agent[a].oled.screen # "DRAW"
        /\ agent[a].oled.buffer # "DRAW"

\* An agent one report short of sinking the opponent's fleet has lost its
\* own last boat square and shows the defeat.
C39_Witness ==
    /\ run.called /\ run.before.agentState = "AGENT_STATE_END_SCREEN"
    /\ FieldGetBoatStates(agent[run.who].ownField) = 0
    /\ FieldGetBoatStates(agent[run.who].oppField) = BoatStatus.FIELD_BOAT_STATUS_HUGE
    /\ agent[run.who].endScreenDrawn
    /\ agent[run.who].oled.screen = "ALAS DEFEAT..."

(***************************************************************************)
(* Properties of the negotiation of two agents.                            *)
(***************************************************************************)
\* C40: between two agents whose frames pass through Message_Encode and
\* Message_Decode, for every secret A the REV event carries A, the
\* acceptor's verification of it against the commitment received in CHA
\* succeeds, and no agent reaches END_SCREEN or shows the cheat banner.
C40_HonestVerified ==
    /\ run.cheat = {}
    /\ \A a \in Agents :
            /\ agent[a].agentState # "AGENT_STATE_END_SCREEN"
            /\ agent[a].oled.screen # CheatBanner
    /\ Ran("AGENT_STATE_START", "BB_EVENT_CHA_RECEIVED") =>
            agent[run.who].hashA = NegotiationHash(agent[Peer(run.who)].A)
    /\ Ran("AGENT_STATE_ACCEPTING", "BB_EVENT_REV_RECEIVED") =>
            /\ run.event.param0 = agent[Peer(run.who)].A
            /\ NegotiationVerify(run.event.param0, run.before.hashA)
            /\ agent[run.who].agentState
                    \in {"AGENT_STATE_ATTACKING", "AGENT_STATE_DEFENDING"}

\* The largest secret was revealed and verified.
C40_Witness ==
    /\ Ran("AGENT_STATE_ACCEPTING", "BB_EVENT_REV_RECEIVED")
    /\ run.event.param0 = 65535
    /\ agent[Peer(run.who)].A = 65535
    /\ run.before.hashA = NegotiationHash(65535)
    /\ agent[run.who].agentState \in {"AGENT_STATE_ATTACKING", "AGENT_STATE_DEFENDING"}

====
